---------------------------- MODULE Spec2Model ----------------------------
(***************************************************************************)
(* Verification model of go-binary-updater (package release):              *)
(*   - RetryableHTTPClient: retry loop, rate-limit handling and circuit    *)
(*     breaker (the "Resilient Transport");                                *)
(*   - AssetMatcher: exclusion filtering, strategy dispatch and flexible   *)
(*     scoring (the "Asset Resolution Engine").                            *)
(* Time is counted in seconds.  Asset names and patterns are sequences of  *)
(* one-character strings so that substring tests are computed as           *)
(* strings.Contains computes them.                                         *)
(***************************************************************************)
EXTENDS Integers, Sequences, FiniteSets, TLC

VARIABLES
    \* ---- RetryableHTTPClient fields ----
    config,         \* HTTPClientConfig: [MaxRetries, CircuitBreaker]
    failureCount,   \* c.failureCount
    lastFailure,    \* c.lastFailure (seconds)
    circuitOpen,    \* c.circuitOpen
    \* ---- environment and the position of the caller inside Do ----
    now,            \* time.Now() in seconds
    pc,             \* "idle" | "attempt" | "rateLimitWait" | "backoffWait"
    attempt,        \* loop variable of Do
    lastStatus,     \* outcome of the request handled last inside Do
    \* ---- what the caller of Do observes ----
    result,         \* "none" while running, else the way Do returned
    resp,           \* status of the response handed to the caller, 0 if nil
    requests,       \* network requests issued by the current/last call
    retried,        \* retryable outcomes seen by the current/last call
    calls,          \* calls of Do made on this client so far
    only500,        \* every backend answer so far was status 500
    wasOpen,        \* c.circuitOpen when the current/last call entered Do
    late,           \* more than circuitTimeout since lastFailure at entry
    entryCount,     \* c.failureCount right after the circuit check at entry
    sinceOk,        \* failed attempts recorded since the last success
    \* ---- goroutines sharing one client (recordFailure step by step) ----
    gpc,            \* position of each goroutine inside recordFailure
    reg,            \* the value of c.failureCount a goroutine has loaded
    count0,         \* c.failureCount before the goroutines started
    \* ---- AssetMatcher and one call of FindBestMatch ----
    os,             \* am.os
    arch,           \* am.arch
    amConfig,       \* am.config
    assetNames,     \* the argument of FindBestMatch
    matchResult,    \* what FindBestMatch returned: [name, err]
    mpc,            \* "idle" | "ready" | "done" | "again"
    filtered,       \* the list filterExcludedAssets returned
    prevResult,     \* what the call before the last one returned
    \* ---- the pauses of the retry loop ----
    headers,        \* Retry-After header values the backend may send
    retryAfter,     \* Retry-After of the 429 response handled last
    pause,          \* argument of the last time.Sleep of the call, in ms
    \* ---- CDNDownloader and one call on it ----
    downloader,     \* the CDNDownloader: [BaseURL, Pattern, ArchMapping]
    cdnIn,          \* arguments of the call: [version, os, arch, format]
    versionToUse,   \* the local versionToUse of ConstructURLWithVersionFormat
    url,            \* the URL constructed
    dlResult,       \* how DownloadWithVersionFormat returned
    upc,            \* "idle" | "ready" | "built" | "downloaded"
    \* ---- a release client (GithubRelease, GitLabRelease) and its host ----
    grelease,       \* the client: [provider, Version, ReleaseLink]
    apiReply,       \* what the release API answers: [status, TagName]
    netLog,         \* the requests the client has sent, in order
    rerr,           \* how the client's operation returned
    rpc             \* "idle" | "ready" | "done" | "called" | "linked"

tvars == <<config, failureCount, lastFailure, circuitOpen, now, pc, attempt,
           lastStatus, result, resp, requests, retried, calls, only500,
           wasOpen, late, entryCount, sinceOk>>

cvars == <<gpc, reg, count0>>

mvars == <<os, arch, amConfig, assetNames, matchResult, mpc, filtered,
           prevResult>>

bvars == <<headers, retryAfter, pause>>

uvars == <<downloader, cdnIn, versionToUse, url, dlResult, upc>>

rvars == <<grelease, apiReply, netLog, rerr, rpc>>

vars == <<tvars, cvars, mvars, bvars, uvars, rvars>>

-----------------------------------------------------------------------------
(* Bounds of the model *)

MaxRetriesBound == 2      \* config.MaxRetries ranges over 0..MaxRetriesBound
MaxCalls == 6             \* calls of Do per behaviour
MaxTime == 120            \* the clock stops advancing here
TickStep == 30            \* granularity of the clock
NumGoroutines == 3        \* concurrent callers sharing one client
MaxAssets == 2            \* longest candidate list given to FindBestMatch

(* Program constants *)

circuitTimeout == 60      \* NewRetryableHTTPClient: 60 * time.Second
FailureThreshold == 5     \* recordFailure: c.failureCount >= 5
ZeroTime == 0 - 1000      \* zero value of time.Time, far in the past

StatusOK == 200
StatusUnauthorized == 401
StatusForbidden == 403
StatusNotFound == 404
StatusTooManyRequests == 429
StatusInternalServerError == 500
StatusBadGateway == 502
StatusServiceUnavailable == 503
StatusGatewayTimeout == 504

\* What one c.client.Do can produce: a transport error or a response status.
\* c.client.Do returned err != nil (no response).
TransportError == 0 - 1

Outcomes == {TransportError, StatusOK, StatusNotFound, StatusTooManyRequests,
             StatusInternalServerError, StatusBadGateway,
             StatusServiceUnavailable, StatusGatewayTimeout}

\* The three ways Do returns an error after the last permitted attempt.
MaxRetriesExceeded == {"RateLimited", "ServerError", "RequestFailed"}

-----------------------------------------------------------------------------
(* Strings (package strings).  A string is a TLA+ string; Len, SubSeq and  *)
(* \o act on it as on a sequence of characters.                            *)

Ch(s, i) == SubSeq(s, i, i)

Uppers == "ABCDEFGHIJKLMNOPQRSTUVWXYZ"
Lowers == "abcdefghijklmnopqrstuvwxyz"

LowerOf == [c \in {Ch(Uppers, i) : i \in 1..26} |->
               Ch(Lowers, CHOOSE i \in 1..26 : Ch(Uppers, i) = c)]
UpperOf == [c \in {Ch(Lowers, i) : i \in 1..26} |->
               Ch(Uppers, CHOOSE i \in 1..26 : Ch(Lowers, i) = c)]

RECURSIVE ToLower(_)
ToLower(s) ==
    IF Len(s) = 0 THEN ""
    ELSE LET c == Ch(s, 1) IN
         (IF c \in DOMAIN LowerOf THEN LowerOf[c] ELSE c)
         \o ToLower(SubSeq(s, 2, Len(s)))

RECURSIVE TrimSpace(_)
TrimSpace(s) ==
    IF Len(s) = 0 THEN s
    ELSE IF Ch(s, 1) = " " THEN TrimSpace(SubSeq(s, 2, Len(s)))
    ELSE IF Ch(s, Len(s)) = " " THEN TrimSpace(SubSeq(s, 1, Len(s) - 1))
    ELSE s

\* strings.Title on a single word: the first letter in upper case.
Title(s) ==
    IF Len(s) = 0 THEN s
    ELSE LET c == Ch(s, 1) IN
         (IF c \in DOMAIN UpperOf THEN UpperOf[c] ELSE c)
         \o SubSeq(s, 2, Len(s))

HasPrefixAt(s, j, sub) ==
    /\ j + Len(sub) - 1 <= Len(s)
    /\ SubSeq(s, j, j + Len(sub) - 1) = sub

Contains(s, sub) == \E j \in 1..(Len(s) + 1) : HasPrefixAt(s, j, sub)

HasSuffix(s, suf) ==
    /\ Len(suf) <= Len(s)
    /\ SubSeq(s, Len(s) - Len(suf) + 1, Len(s)) = suf

EqualFold(a, b) == ToLower(a) = ToLower(b)

RECURSIVE ReplaceAll(_, _, _)
ReplaceAll(s, old, new) ==
    LET hits == {j \in 1..Len(s) : HasPrefixAt(s, j, old)} IN
    IF hits = {} THEN s
    ELSE LET j == CHOOSE k \in hits : \A m \in hits : k <= m IN
         SubSeq(s, 1, j - 1) \o new
             \o ReplaceAll(SubSeq(s, j + Len(old), Len(s)), old, new)

RECURSIVE Join(_, _)
Join(elems, sep) ==
    IF Len(elems) = 0 THEN ""
    ELSE IF Len(elems) = 1 THEN elems[1]
    ELSE elems[1] \o sep \o Join(Tail(elems), sep)

\* strconv.Atoi: an optional sign and at least one decimal digit.
Digits == "0123456789"

IsDigit(c) == \E i \in 1..10 : Ch(Digits, i) = c

DigitVal(c) == (CHOOSE i \in 1..10 : Ch(Digits, i) = c) - 1

RECURSIVE ParseUint(_, _)
ParseUint(s, acc) ==
    IF Len(s) = 0 THEN acc
    ELSE ParseUint(SubSeq(s, 2, Len(s)), acc * 10 + DigitVal(Ch(s, 1)))

Atoi(s) ==
    LET signed == Len(s) > 0 /\ Ch(s, 1) \in {"+", "-"}
        body == IF signed THEN SubSeq(s, 2, Len(s)) ELSE s
    IN  IF Len(body) = 0 \/ \E i \in 1..Len(body) : ~IsDigit(Ch(body, i))
        THEN [ok |-> FALSE, val |-> 0]
        ELSE [ok |-> TRUE,
              val |-> IF Ch(s, 1) = "-" THEN 0 - ParseUint(body, 0)
                      ELSE ParseUint(body, 0)]

-----------------------------------------------------------------------------
(* RetryableHTTPClient helpers *)

\* Variant: every error status is retried, the client errors included.
shouldRetry_everyError(statusCode) ==
    statusCode >= 400

\* Variant: 429 is the only status retried.
shouldRetry_only429(statusCode) ==
    statusCode = StatusTooManyRequests

\* shouldRetry: the statuses after which Do tries again.
shouldRetry(statusCode) ==
    statusCode \in {StatusTooManyRequests, StatusInternalServerError,
                    StatusBadGateway, StatusServiceUnavailable,
                    StatusGatewayTimeout}

\* The retryable outcomes as the transport's contract lists them: a transport
\* error or one of the five statuses.  Used only to observe the backend.
RetryableOutcomes == {TransportError, 429, 500, 502, 503, 504}

Retryable(o) == o \in RetryableOutcomes

\* Variant: the circuit opens only above the threshold.
recordFailure_above(cnt, open, t) ==
    [failureCount |-> cnt + 1,
     lastFailure  |-> t,
     circuitOpen  |-> IF config.CircuitBreaker /\ cnt + 1 > FailureThreshold
                      THEN TRUE ELSE open]

\* Variant: the circuit opens whether or not the breaker is enabled.
recordFailure_always(cnt, open, t) ==
    [failureCount |-> cnt + 1,
     lastFailure  |-> t,
     circuitOpen  |-> IF cnt + 1 >= FailureThreshold THEN TRUE ELSE open]

\* recordFailure: the circuit fields after recording one failure at time t.
recordFailure(cnt, open, t) ==
    [failureCount |-> cnt + 1,
     lastFailure  |-> t,
     circuitOpen  |-> IF config.CircuitBreaker /\ cnt + 1 >= FailureThreshold
                      THEN TRUE ELSE open]

\* Variant: a success zeroes the counter but leaves the flag alone.
resetCircuitBreaker_countOnly ==
    [failureCount |-> 0, circuitOpen |-> circuitOpen]

\* resetCircuitBreaker: the circuit fields after a success.
resetCircuitBreaker ==
    [failureCount |-> 0, circuitOpen |-> FALSE]

\* Variant: the circuit closes as soon as the timeout is reached.
isCircuitOpen_atTimeout ==
    IF ~circuitOpen
    THEN [open |-> FALSE, circuitOpen |-> circuitOpen,
          failureCount |-> failureCount]
    ELSE IF now - lastFailure >= circuitTimeout
         THEN [open |-> FALSE, circuitOpen |-> FALSE, failureCount |-> 0]
         ELSE [open |-> TRUE, circuitOpen |-> circuitOpen,
               failureCount |-> failureCount]

\* Variant: the timeout closes the circuit but keeps the counter.
isCircuitOpen_keepCount ==
    IF ~circuitOpen
    THEN [open |-> FALSE, circuitOpen |-> circuitOpen,
          failureCount |-> failureCount]
    ELSE IF now - lastFailure > circuitTimeout
         THEN [open |-> FALSE, circuitOpen |-> FALSE,
               failureCount |-> failureCount]
         ELSE [open |-> TRUE, circuitOpen |-> circuitOpen,
               failureCount |-> failureCount]

\* isCircuitOpen: the answer and the circuit fields it leaves behind.
isCircuitOpen ==
    IF ~circuitOpen
    THEN [open |-> FALSE, circuitOpen |-> circuitOpen,
          failureCount |-> failureCount]
    ELSE IF now - lastFailure > circuitTimeout
         THEN [open |-> FALSE, circuitOpen |-> FALSE, failureCount |-> 0]
         ELSE [open |-> TRUE, circuitOpen |-> circuitOpen,
               failureCount |-> failureCount]

\* time.Second, durations being counted in milliseconds.
Second == 1000

\* DefaultHTTPClientConfig.  BackoffFactor is a float64 in the code; its
\* values here are the fractions num/den.
DefaultHTTPClientConfig ==
    [MaxRetries     |-> 3,
     InitialDelay   |-> 1 * Second,
     MaxDelay       |-> 30 * Second,
     BackoffFactor  |-> [num |-> 2, den |-> 1],
     Timeout        |-> 30 * Second,
     RateLimitDelay |-> 1 * Second,
     CircuitBreaker |-> TRUE]

\* math.Pow for a natural exponent.
RECURSIVE Pow(_, _)
Pow(b, n) == IF n = 0 THEN 1 ELSE b * Pow(b, n - 1)

\* handleRateLimit: the duration it hands to time.Sleep for a 429 response
\* whose Retry-After header is retryAfterHeader ("" when absent).  In the
\* fallback the power is converted to a time.Duration, an integer, before the
\* multiplication.
handleRateLimit(retryAfterHeader, att) ==
    LET parsed == Atoi(retryAfterHeader)
        f == config.BackoffFactor
        delay == IF retryAfterHeader # "" /\ parsed.ok
                 THEN parsed.val * Second
                 ELSE config.RateLimitDelay
                          * (Pow(f.num, att) \div Pow(f.den, att))
    IN  IF delay > config.MaxDelay THEN config.MaxDelay ELSE delay

\* waitBeforeRetry: the duration it hands to time.Sleep.  The product is
\* formed in float64 and converted to a time.Duration afterwards.
waitBeforeRetry(att) ==
    LET f == config.BackoffFactor
        delay == (config.InitialDelay * Pow(f.num, att)) \div Pow(f.den, att)
    IN  IF delay > config.MaxDelay THEN config.MaxDelay ELSE delay

\* time.Sleep(d) returns at once when d is negative or zero.
Sleep(d) == IF d > 0 THEN d ELSE 0

\* The configurations of the clients considered: the default delays.
ClientConfigs ==
    {[DefaultHTTPClientConfig EXCEPT !.MaxRetries = m, !.CircuitBreaker = b] :
        m \in 0..MaxRetriesBound, b \in BOOLEAN}

-----------------------------------------------------------------------------
Goroutines == 1..NumGoroutines

\* A backend that sends no Retry-After header; no pause taken yet.
BackoffIdle ==
    /\ headers = {""}
    /\ retryAfter = ""
    /\ pause = 0

\* A nil map[string]string: no key is present.
NilArchMapping == [k \in {} |-> ""]

\* No release client is involved.
ReleaseIdle ==
    /\ grelease = [provider |-> "", Version |-> "", ReleaseLink |-> ""]
    /\ apiReply = [status |-> 0, TagName |-> ""]
    /\ netLog = <<>>
    /\ rerr = "none"
    /\ rpc = "idle"

\* No CDN downloader is involved.
BuilderIdle ==
    /\ downloader = [BaseURL |-> "", Pattern |-> "",
                     ArchMapping |-> NilArchMapping]
    /\ cdnIn = [version |-> "", os |-> "", arch |-> "", format |-> ""]
    /\ versionToUse = ""
    /\ url = ""
    /\ dlResult = "none"
    /\ upc = "idle"

\* No asset matcher is involved in the behaviours of the transport.
MatcherIdle ==
    /\ os = ""
    /\ arch = ""
    /\ amConfig = [Strategy |-> "Flexible"]
    /\ assetNames = <<>>
    /\ matchResult = [name |-> "", err |-> ""]
    /\ mpc = "idle"
    /\ filtered = <<>>
    /\ prevResult = [name |-> "", err |-> ""]

(* The client after NewRetryableHTTPClient, before any call *)

Init ==
    /\ config \in ClientConfigs
    /\ failureCount = 0
    /\ lastFailure = ZeroTime
    /\ circuitOpen = FALSE
    /\ now = 0
    /\ pc = "idle"
    /\ attempt = 0
    /\ lastStatus = 0
    /\ result = "none"
    /\ resp = 0
    /\ requests = 0
    /\ retried = 0
    /\ calls = 0
    /\ only500 = TRUE
    /\ wasOpen = FALSE
    /\ late = FALSE
    /\ entryCount = 0
    /\ sinceOk = 0
    /\ gpc = [g \in Goroutines |-> "done"]
    /\ reg = [g \in Goroutines |-> 0]
    /\ count0 = 0
    /\ MatcherIdle
    /\ BackoffIdle
    /\ BuilderIdle
    /\ ReleaseIdle

\* Time passes: between calls, while a request is in flight, during a sleep.
Tick ==
    /\ now + TickStep <= MaxTime
    /\ now' = now + TickStep
    /\ UNCHANGED <<config, failureCount, lastFailure, circuitOpen, pc,
                   attempt, lastStatus, result, resp, requests, retried,
                   calls, only500, wasOpen, late, entryCount, sinceOk>>
    /\ UNCHANGED <<cvars, mvars, bvars, uvars, rvars>>

\* Do, from its entry to the first iteration of the loop: the circuit check.
DoEnter ==
    /\ pc = "idle"
    /\ calls < MaxCalls
    /\ calls' = calls + 1
    /\ wasOpen' = circuitOpen
    /\ late' = (now - lastFailure > circuitTimeout)
    /\ requests' = 0
    /\ retried' = 0
    /\ resp' = 0
    /\ lastStatus' = 0
    /\ attempt' = 0
    /\ IF config.CircuitBreaker
       THEN LET chk == isCircuitOpen IN
            /\ circuitOpen' = chk.circuitOpen
            /\ failureCount' = chk.failureCount
            /\ entryCount' = chk.failureCount
            /\ IF chk.open
               THEN result' = "CircuitOpen" /\ pc' = "idle"
               ELSE result' = "none" /\ pc' = "attempt"
       ELSE /\ UNCHANGED <<circuitOpen, failureCount>>
            /\ entryCount' = failureCount
            /\ result' = "none"
            /\ pc' = "attempt"
    /\ retryAfter' = ""
    /\ pause' = 0
    /\ UNCHANGED <<config, lastFailure, now, only500, sinceOk, headers>>
    /\ UNCHANGED <<cvars, mvars, uvars, rvars>>

\* One iteration of the loop up to the point where it sleeps, continues or
\* returns: the request is issued and the backend produces outcome o.
DoAttempt(o) ==
    /\ pc = "attempt"
    /\ attempt <= config.MaxRetries
    /\ requests' = requests + 1
    /\ lastStatus' = o
    /\ only500' = (only500 /\ o = StatusInternalServerError)
    /\ retried' = IF Retryable(o) THEN retried + 1 ELSE retried
    /\ IF o = StatusTooManyRequests
       THEN \* handleRateLimit sleeps before the failure is recorded
            /\ pc' = "rateLimitWait"
            /\ \E h \in headers :
                  /\ retryAfter' = h
                  /\ pause' = Sleep(handleRateLimit(h, attempt))
            /\ UNCHANGED <<failureCount, lastFailure, circuitOpen, attempt,
                           result, resp, sinceOk>>
       ELSE IF o # TransportError /\ ~shouldRetry(o)
       THEN \* success: reset the breaker and hand the response over
            /\ failureCount' = resetCircuitBreaker.failureCount
            /\ circuitOpen' = resetCircuitBreaker.circuitOpen
            /\ sinceOk' = 0
            /\ result' = "ok"
            /\ resp' = o
            /\ pc' = "idle"
            /\ UNCHANGED <<lastFailure, attempt, retryAfter, pause>>
       ELSE \* server error or transport error
            LET rf == recordFailure(failureCount, circuitOpen, now) IN
            /\ failureCount' = rf.failureCount
            /\ lastFailure' = rf.lastFailure
            /\ circuitOpen' = rf.circuitOpen
            /\ sinceOk' = sinceOk + 1
            /\ resp' = 0
            /\ IF attempt < config.MaxRetries
               THEN /\ pc' = "backoffWait"
                    /\ pause' = Sleep(waitBeforeRetry(attempt))
                    /\ UNCHANGED <<attempt, result, retryAfter>>
               ELSE /\ pc' = "idle"
                    /\ result' = IF o = TransportError THEN "RequestFailed"
                                 ELSE "ServerError"
                    /\ UNCHANGED <<attempt, retryAfter, pause>>
    /\ UNCHANGED <<config, now, calls, wasOpen, late, entryCount, headers>>
    /\ UNCHANGED <<cvars, mvars, uvars, rvars>>

\* The 429 branch after handleRateLimit has slept: record, continue or fail.
DoAfterRateLimit ==
    /\ pc = "rateLimitWait"
    /\ LET rf == recordFailure(failureCount, circuitOpen, now) IN
       /\ failureCount' = rf.failureCount
       /\ lastFailure' = rf.lastFailure
       /\ circuitOpen' = rf.circuitOpen
    /\ sinceOk' = sinceOk + 1
    /\ IF attempt < config.MaxRetries
       THEN /\ attempt' = attempt + 1
            /\ pc' = "attempt"
            /\ UNCHANGED result
       ELSE /\ pc' = "idle"
            /\ result' = "RateLimited"
            /\ UNCHANGED attempt
    /\ UNCHANGED <<config, now, lastStatus, resp, requests, retried, calls,
                   only500, wasOpen, late, entryCount>>
    /\ UNCHANGED <<cvars, mvars, bvars, uvars, rvars>>

\* waitBeforeRetry has slept: the loop continues with the next attempt.
DoAfterBackoff ==
    /\ pc = "backoffWait"
    /\ attempt' = attempt + 1
    /\ pc' = "attempt"
    /\ UNCHANGED <<config, failureCount, lastFailure, circuitOpen, now,
                   lastStatus, result, resp, requests, retried, calls,
                   only500, wasOpen, late, entryCount, sinceOk>>
    /\ UNCHANGED <<cvars, mvars, bvars, uvars, rvars>>

Next ==
    \/ Tick
    \/ DoEnter
    \/ \E o \in Outcomes : DoAttempt(o)
    \/ DoAfterRateLimit
    \/ DoAfterBackoff

Spec == Init /\ [][Next]_vars

-----------------------------------------------------------------------------
(* Properties of the Resilient Transport *)

\* C1: on a fresh client with the circuit breaker enabled, MaxRetries = 0 and
\* a backend that answers every request with 500, each of the first five
\* calls issues exactly one request and fails, and the sixth consecutive call
\* (made before the reopen timeout has run out since the fifth failure) fails
\* with CircuitOpen without issuing a request.
C1_SixthCallCircuitOpen ==
    (config.MaxRetries = 0 /\ config.CircuitBreaker /\ only500 /\ pc = "idle")
    => /\ calls \in 1..5 => (requests = 1 /\ result = "ServerError")
       /\ (calls = 6 /\ ~late) => (result = "CircuitOpen" /\ requests = 0)

C1_Witness ==
    /\ config.MaxRetries = 0 /\ config.CircuitBreaker /\ only500
    /\ pc = "idle" /\ calls = 6 /\ ~late
    /\ result = "CircuitOpen" /\ requests = 0

\* C2: an admitted call that meets k consecutive retryable outcomes issues
\* min(k+1, MaxRetries+1) requests; it returns the first non-retryable
\* response when k <= MaxRetries and fails with MaxRetriesExceeded when
\* k > MaxRetries, with the breaker enabled or not and also when the counter
\* reaches the threshold while the call is running (it is never cut short
\* with CircuitOpen once admitted).
C2_RetryLoopBound ==
    /\ requests <= config.MaxRetries + 1
    /\ pc # "idle" => (result = "none" /\ requests = retried)
    /\ (pc = "idle" /\ result = "ok")
       => /\ retried <= config.MaxRetries
          /\ requests = retried + 1
          /\ resp = lastStatus /\ ~Retryable(resp)
    /\ (pc = "idle" /\ result \in MaxRetriesExceeded)
       => /\ retried = config.MaxRetries + 1
          /\ requests = config.MaxRetries + 1
          /\ resp = 0
    /\ result = "CircuitOpen" => (requests = 0 /\ wasOpen /\ pc = "idle")
    /\ (pc = "idle" /\ calls > 0)
       => result \in {"ok", "CircuitOpen"} \cup MaxRetriesExceeded

\* A call that was admitted with the circuit closed, saw the counter pass the
\* threshold while running and still used all its attempts.
C2_Witness ==
    /\ pc = "idle" /\ result \in MaxRetriesExceeded
    /\ config.CircuitBreaker /\ ~wasOpen /\ config.MaxRetries = 2
    /\ circuitOpen /\ failureCount > FailureThreshold
    /\ requests = 3

\* C3: while the circuit is open and no more than 60 s have passed since the
\* last recorded failure, a call fails at once with CircuitOpen, issues no
\* request and leaves failureCount, circuitOpen and lastFailure unchanged.
C3_OpenCircuitRejects ==
    [][ (pc = "idle" /\ calls' = calls + 1 /\ circuitOpen
         /\ now - lastFailure <= circuitTimeout)
        => (/\ result' = "CircuitOpen"
            /\ pc' = "idle"
            /\ requests' = 0
            /\ failureCount' = failureCount
            /\ circuitOpen' = circuitOpen
            /\ lastFailure' = lastFailure) ]_vars

\* A call rejected exactly 60 s after the last failure.
C3_Witness ==
    /\ result = "CircuitOpen" /\ pc = "idle" /\ circuitOpen
    /\ now - lastFailure = circuitTimeout

\* C4: a call that arrives with the circuit open and more than 60 s after
\* the last recorded failure is admitted: the circuit is closed and the
\* counter zero before its first attempt, and that attempt is issued (the
\* loop condition holds whenever the loop body is about to run).  No
\* success is needed in between.
C4_CircuitRecovers ==
    /\ [][ (pc = "idle" /\ calls' = calls + 1 /\ circuitOpen
            /\ now - lastFailure > circuitTimeout)
           => (/\ pc' = "attempt" /\ attempt' = 0
               /\ result' = "none" /\ requests' = 0
               /\ ~circuitOpen' /\ failureCount' = 0) ]_vars
    /\ [](pc = "attempt" => attempt <= config.MaxRetries)
    /\ [][ (pc = "attempt" /\ pc' # "attempt") => requests' = requests + 1 ]_vars

\* A call admitted from an open circuit after the timeout has sent a request.
C4_Witness ==
    /\ wasOpen /\ late /\ entryCount = 0 /\ requests >= 1
    /\ config.CircuitBreaker

\* C5: when a call has returned a response, failureCount is zero and the
\* circuit is closed, whatever failed before in this call or earlier ones;
\* the circuit is open only if at least five failures were recorded since
\* the last success.
C5_SuccessResets ==
    /\ (pc = "idle" /\ result = "ok") => (failureCount = 0 /\ ~circuitOpen)
    /\ circuitOpen => sinceOk >= FailureThreshold

\* A success that follows enough failures to have opened the circuit within
\* the same call.
C5_Witness ==
    /\ pc = "idle" /\ result = "ok" /\ config.CircuitBreaker
    /\ retried >= 1 /\ entryCount + retried >= FailureThreshold
    /\ failureCount = 0 /\ ~circuitOpen

\* C6 as claimed: a call that ends in failure raises failureCount by exactly
\* one whatever MaxRetries is, so the circuit is not open before the fifth
\* failed call has completed.
C6_CountsFailedCalls ==
    /\ (pc = "idle" /\ result \in MaxRetriesExceeded)
       => failureCount = entryCount + 1
    /\ circuitOpen => calls >= FailureThreshold

\* C6 amended: failureCount counts failed attempts.  Every attempt that ends
\* in a transport error or a retryable status raises it by one, so a call
\* that ends in failure raises it by MaxRetries + 1; with the breaker
\* enabled the circuit is open exactly when the counter has reached 5,
\* which can happen in the middle of a call.
C6_CountsFailedAttempts ==
    /\ (pc = "idle" /\ result \in MaxRetriesExceeded)
       => failureCount = entryCount + config.MaxRetries + 1
    /\ pc \in {"attempt", "backoffWait"} => failureCount = entryCount + retried
    /\ pc = "rateLimitWait" => failureCount = entryCount + retried - 1
    /\ config.CircuitBreaker
       => (circuitOpen <=> failureCount >= FailureThreshold)
    /\ ~config.CircuitBreaker => ~circuitOpen

\* The circuit opened during the second failed call of a fresh client.
C6_Witness ==
    /\ pc = "idle" /\ result \in MaxRetriesExceeded
    /\ config.MaxRetries = 2 /\ config.CircuitBreaker
    /\ calls = 2 /\ circuitOpen /\ failureCount = entryCount + 3

-----------------------------------------------------------------------------
(* One client shared by concurrent callers.  recordFailure takes no lock,  *)
(* so its loads and stores of the circuit fields interleave between        *)
(* goroutines; each goroutine below records one failed attempt.            *)

\* The fields of Do's caller that the goroutine steps leave alone.
callerVars == <<pc, attempt, lastStatus, result, resp, requests, retried,
                calls, only500, wasOpen, late, entryCount, sinceOk>>

\* A client that has recorded count0 failures so far, none of them after a
\* success, with NumGoroutines callers about to record one more each.
InitShared ==
    /\ config \in ClientConfigs
    /\ count0 \in 0..FailureThreshold
    /\ failureCount = count0
    /\ lastFailure = IF count0 = 0 THEN ZeroTime ELSE 0
    /\ circuitOpen = (config.CircuitBreaker /\ count0 >= FailureThreshold)
    /\ now = 0
    /\ pc = "idle"
    /\ attempt = 0
    /\ lastStatus = 0
    /\ result = "none"
    /\ resp = 0
    /\ requests = 0
    /\ retried = 0
    /\ calls = 0
    /\ only500 = TRUE
    /\ wasOpen = FALSE
    /\ late = FALSE
    /\ entryCount = count0
    /\ sinceOk = count0
    /\ gpc = [g \in Goroutines |-> "load"]
    /\ reg = [g \in Goroutines |-> 0]
    /\ MatcherIdle
    /\ BackoffIdle
    /\ BuilderIdle
    /\ ReleaseIdle

\* c.failureCount++ : the load
RfLoad(g) ==
    /\ gpc[g] = "load"
    /\ reg' = [reg EXCEPT ![g] = failureCount]
    /\ gpc' = [gpc EXCEPT ![g] = "store"]
    /\ UNCHANGED <<config, failureCount, lastFailure, circuitOpen, now,
                   count0, callerVars, mvars, bvars, uvars, rvars>>

\* c.failureCount++ : the store
RfStore(g) ==
    /\ gpc[g] = "store"
    /\ failureCount' = reg[g] + 1
    /\ gpc' = [gpc EXCEPT ![g] = "stamp"]
    /\ UNCHANGED <<config, lastFailure, circuitOpen, now, reg, count0,
                   callerVars, mvars, bvars, uvars, rvars>>

\* c.lastFailure = time.Now()
RfStamp(g) ==
    /\ gpc[g] = "stamp"
    /\ lastFailure' = now
    /\ gpc' = [gpc EXCEPT ![g] = "check"]
    /\ UNCHANGED <<config, failureCount, circuitOpen, now, reg, count0,
                   callerVars, mvars, bvars, uvars, rvars>>

\* if c.config.CircuitBreaker && c.failureCount >= 5 { c.circuitOpen = true }
RfCheck(g) ==
    /\ gpc[g] = "check"
    /\ circuitOpen' = IF config.CircuitBreaker
                         /\ failureCount >= FailureThreshold
                      THEN TRUE ELSE circuitOpen
    /\ gpc' = [gpc EXCEPT ![g] = "done"]
    /\ UNCHANGED <<config, failureCount, lastFailure, now, reg, count0,
                   callerVars, mvars, bvars, uvars, rvars>>

NextShared ==
    \E g \in Goroutines : RfLoad(g) \/ RfStore(g) \/ RfStamp(g) \/ RfCheck(g)

SpecShared == InitShared /\ [][NextShared]_vars

\* C7: with one client shared by concurrent callers no failure increment is
\* lost: once n concurrent failing attempts that started from counter value
\* c have all been recorded, the counter is c+n and the circuit is open
\* whenever c+n >= 5.
C7_NoLostUpdate ==
    (\A g \in Goroutines : gpc[g] = "done")
    => /\ failureCount = count0 + NumGoroutines
       /\ (config.CircuitBreaker
           /\ count0 + NumGoroutines >= FailureThreshold) => circuitOpen

-----------------------------------------------------------------------------
(* Regular expressions (package regexp), for the syntax the patterns of    *)
(* this repository use: literal characters, \c, ., x*, ^, $ and one level  *)
(* of groups whose alternatives are literals, e.g. (amd64|x86_64).         *)

\* Index of the first occurrence of character c in re at or after i, or 0.
RECURSIVE IndexFrom(_, _, _)
IndexFrom(re, i, c) ==
    IF i > Len(re) THEN 0
    ELSE IF Ch(re, i) = c THEN i
    ELSE IndexFrom(re, i + 1, c)

\* The alternatives of the text between the parentheses of a group.
RECURSIVE Split(_, _)
Split(s, sep) ==
    LET k == IndexFrom(s, 1, sep) IN
    IF k = 0 THEN <<s>>
    ELSE <<SubSeq(s, 1, k - 1)>> \o Split(SubSeq(s, k + 1, Len(s)), sep)

\* regexp.Compile succeeds: groups are closed, no repetition without an
\* operand, no trailing backslash.
RECURSIVE RegexCompiles(_, _)
RegexCompiles(re, i) ==
    IF i > Len(re) THEN TRUE
    ELSE LET c == Ch(re, i) IN
         IF c = "\\" THEN i < Len(re) /\ RegexCompiles(re, i + 2)
         ELSE IF c = "(" THEN
              LET e == IndexFrom(re, i, ")") IN
              /\ e # 0
              /\ IndexFrom(SubSeq(re, i + 1, e - 1), 1, "(") = 0
              /\ IndexFrom(SubSeq(re, i + 1, e - 1), 1, "*") = 0
              /\ RegexCompiles(re, e + 1)
         ELSE IF c = ")" THEN FALSE
         ELSE IF c = "*" THEN
              /\ i > 1
              /\ Ch(re, i - 1) \notin {"(", "|", "^", "*"}
                 \/ (i > 2 /\ Ch(re, i - 2) = "\\")
              /\ RegexCompiles(re, i + 1)
         ELSE RegexCompiles(re, i + 1)

\* The one-character atom of re at i matches character c.
AtomMatches(re, i, c) ==
    IF Ch(re, i) = "\\" THEN c = Ch(re, i + 1)
    ELSE IF Ch(re, i) = "." THEN c # "\n"
    ELSE c = Ch(re, i)

\* re from position i on matches a prefix of s from position j on.
RECURSIVE MatchHere(_, _, _, _)
MatchHere(re, i, s, j) ==
    IF i > Len(re) THEN TRUE
    ELSE LET c == Ch(re, i) IN
         IF c = "^" THEN j = 1 /\ MatchHere(re, i + 1, s, j)
         ELSE IF c = "$" THEN j = Len(s) + 1 /\ MatchHere(re, i + 1, s, j)
         ELSE IF c = "(" THEN
              LET e == IndexFrom(re, i, ")")
                  alts == Split(SubSeq(re, i + 1, e - 1), "|") IN
              \E a \in 1..Len(alts) :
                  /\ HasPrefixAt(s, j, alts[a])
                  /\ MatchHere(re, e + 1, s, j + Len(alts[a]))
         ELSE LET n == IF c = "\\" THEN 2 ELSE 1 IN
              IF i + n <= Len(re) /\ Ch(re, i + n) = "*"
              THEN \E k \in j..(Len(s) + 1) :
                      /\ \A m \in j..(k - 1) : AtomMatches(re, i, Ch(s, m))
                      /\ MatchHere(re, i + n + 1, s, k)
              ELSE /\ j <= Len(s)
                   /\ AtomMatches(re, i, Ch(s, j))
                   /\ MatchHere(re, i + n, s, j + 1)

\* regexp.MatchString with the error dropped: no match when re is invalid.
MatchString(re, s) ==
    /\ RegexCompiles(re, 1)
    /\ \E j \in 1..(Len(s) + 1) : MatchHere(re, 1, s, j)

-----------------------------------------------------------------------------
(* Platform identity: MapArch *)

MapArch(a) ==
    LET normalizedArch == ToLower(TrimSpace(a)) IN
    IF normalizedArch \in {"amd64", "x86_64", "x64"} THEN "x86_64"
    ELSE IF normalizedArch \in {"arm64", "aarch64"} THEN "arm64"
    ELSE IF normalizedArch \in {"arm", "armv6", "armv7", "armhf"} THEN "arm"
    ELSE IF normalizedArch \in {"386", "i386", "i686", "x86"} THEN "i386"
    ELSE IF normalizedArch \in {"mips", "mipsle", "mips64", "mips64le",
                                "ppc64", "ppc64le", "s390x", "riscv64",
                                "wasm"} THEN normalizedArch
    ELSE a

-----------------------------------------------------------------------------
(* AssetMatcher.  An operator that models a method takes the receiver as   *)
(* its first argument: am = [config, os, arch].                            *)

DefaultArchitectureAliases ==
    ("amd64"   :> <<"amd64", "x86_64", "x64">>) @@
    ("arm64"   :> <<"arm64", "aarch64">>) @@
    ("arm"     :> <<"arm", "armv6", "armv7", "armhf">>) @@
    ("386"     :> <<"386", "i386", "i686", "x86">>) @@
    ("mips"    :> <<"mips">>) @@
    ("mips64"  :> <<"mips64">>) @@
    ("ppc64"   :> <<"ppc64">>) @@
    ("ppc64le" :> <<"ppc64le">>) @@
    ("s390x"   :> <<"s390x">>) @@
    ("riscv64" :> <<"riscv64">>)

DefaultOSAliases ==
    ("linux"   :> <<"linux", "Linux">>) @@
    ("darwin"  :> <<"darwin", "Darwin", "macos", "macOS", "osx", "OSX">>) @@
    ("windows" :> <<"windows", "Windows", "win", "Win">>) @@
    ("freebsd" :> <<"freebsd", "FreeBSD">>) @@
    ("openbsd" :> <<"openbsd", "OpenBSD">>) @@
    ("netbsd"  :> <<"netbsd", "NetBSD">>)

DefaultExcludePatterns ==
    <<"airgap", "\\.asc$", "\\.sig$", "\\.sha256$", "\\.sha512$", "\\.md5$">>

DefaultAssetMatchingConfig ==
    [Strategy            |-> "Flexible",
     CustomPatterns      |-> <<>>,
     IsDirectBinary      |-> FALSE,
     ProjectName         |-> "",
     ArchitectureAliases |-> DefaultArchitectureAliases,
     OSAliases           |-> DefaultOSAliases,
     FileExtensions      |-> <<".tar.gz", ".zip", ".tgz", ".tar.bz2">>,
     ExcludePatterns     |-> DefaultExcludePatterns,
     PriorityPatterns    |-> <<>>,
     CDNBaseURL          |-> "",
     CDNPattern          |-> "",
     CDNVersionFormat    |-> "",
     CDNArchMapping      |-> NilArchMapping]

\* The OS and architecture lists of containsWrongPlatform / containsWrongOS.
allOSAliases ==
    <<"linux", "darwin", "windows", "freebsd", "openbsd", "netbsd", "macos",
      "osx", "win">>

allArchAliases ==
    <<"amd64", "x86_64", "arm64", "aarch64", "arm", "386", "i386", "mips",
      "ppc64">>

getOSAliases(am, o) ==
    IF o \in DOMAIN am.config.OSAliases
    THEN am.config.OSAliases[o]
    ELSE <<o>>

getArchAliases(am, a) ==
    LET mappedArch == MapArch(a) IN
    IF mappedArch \in DOMAIN am.config.ArchitectureAliases
    THEN am.config.ArchitectureAliases[mappedArch]
    ELSE <<a, mappedArch>>

containsWrongOS(am, assetName, osAliases) ==
    \E w \in 1..Len(allOSAliases) :
        /\ Contains(assetName, allOSAliases[w])
        /\ ~\E k \in 1..Len(osAliases) :
                EqualFold(allOSAliases[w], osAliases[k])

containsWrongPlatform(am, assetName, osAliases, archAliases) ==
    \/ \E w \in 1..Len(allOSAliases) :
        /\ Contains(assetName, allOSAliases[w])
        /\ ~\E k \in 1..Len(osAliases) :
                EqualFold(allOSAliases[w], osAliases[k])
    \/ \E w \in 1..Len(allArchAliases) :
        /\ Contains(assetName, allArchAliases[w])
        /\ ~\E k \in 1..Len(archAliases) :
                EqualFold(allArchAliases[w], archAliases[k])

matchesCommonPatterns(am, assetName, osAliases, archAliases) ==
    \/ /\ am.config.ProjectName # ""
       /\ \E k \in 1..Len(archAliases) :
            MatchString(ToLower(am.config.ProjectName) \o "-.*-"
                            \o ToLower(archAliases[k]), assetName)
    \/ \E i \in 1..Len(osAliases) : \E k \in 1..Len(archAliases) :
        \/ MatchString(ToLower(osAliases[i]) \o ".*"
                           \o ToLower(archAliases[k]), assetName)
        \/ MatchString(ToLower(archAliases[k]) \o ".*"
                           \o ToLower(osAliases[i]), assetName)

scoreAsset(am, assetName, osAliases, archAliases) ==
    LET lowerName == ToLower(assetName)
        osMatched == \E i \in 1..Len(osAliases) :
                         Contains(lowerName, ToLower(osAliases[i]))
        archMatched == \E k \in 1..Len(archAliases) :
                           Contains(lowerName, ToLower(archAliases[k]))
    IN  (IF osMatched THEN 10 ELSE 0)
      + (IF archMatched THEN 10 ELSE 0)
      + (IF osMatched /\ archMatched THEN 5 ELSE 0)
      + (IF ~osMatched /\ archMatched
            /\ ~containsWrongOS(am, lowerName, osAliases) THEN 8 ELSE 0)
      + (IF matchesCommonPatterns(am, lowerName, osAliases, archAliases)
         THEN 3 ELSE 0)
      + (IF \E q \in 1..Len(am.config.PriorityPatterns) :
               MatchString(ToLower(am.config.PriorityPatterns[q]), lowerName)
         THEN 15 ELSE 0)
      - (IF containsWrongPlatform(am, lowerName, osAliases, archAliases)
         THEN 20 ELSE 0)
      + (IF ~am.config.IsDirectBinary
            /\ \E x \in 1..Len(am.config.FileExtensions) :
                  HasSuffix(lowerName, am.config.FileExtensions[x])
         THEN 2 ELSE 0)

\* Variant: the asset name is matched as it is written, not in lower case.
filterExcludedAssets_caseSensitive(am, names) ==
    IF Len(am.config.ExcludePatterns) = 0 THEN names
    ELSE SelectSeq(names, LAMBDA n :
            ~\E q \in 1..Len(am.config.ExcludePatterns) :
                MatchString(ToLower(am.config.ExcludePatterns[q]), n))

\* filterExcludedAssets: the names that match none of the exclude patterns.
filterExcludedAssets(am, names) ==
    IF Len(am.config.ExcludePatterns) = 0 THEN names
    ELSE SelectSeq(names, LAMBDA n :
            ~\E q \in 1..Len(am.config.ExcludePatterns) :
                MatchString(ToLower(am.config.ExcludePatterns[q]),
                            ToLower(n)))

\* Variant: the last candidate that contains the key is returned.
findStandardMatch_lastHit(am, names) ==
    LET mappedArch == MapArch(am.arch)
        osTitle == Title(ToLower(am.os))
        searchKey == osTitle \o "_" \o mappedArch
        hits == SelectSeq(names, LAMBDA n : Contains(n, searchKey))
    IN  IF Len(hits) > 0 THEN [name |-> hits[Len(hits)], err |-> ""]
        ELSE [name |-> "", err |-> "NoStandardMatch"]

findStandardMatch(am, names) ==
    LET mappedArch == MapArch(am.arch)
        osTitle == Title(ToLower(am.os))
        searchKey == osTitle \o "_" \o mappedArch
        hits == SelectSeq(names, LAMBDA n : Contains(n, searchKey))
    IN  IF Len(hits) > 0 THEN [name |-> hits[1], err |-> ""]
        ELSE [name |-> "", err |-> "NoStandardMatch"]

\* Variant: a later candidate with an equal score replaces the best one.
RECURSIVE flexibleLoop_lastWins(_, _, _, _, _)
flexibleLoop_lastWins(am, names, i, bestScore, bestMatch) ==
    IF i > Len(names) THEN [score |-> bestScore, match |-> bestMatch]
    ELSE LET score == scoreAsset(am, names[i], getOSAliases(am, am.os),
                                 getArchAliases(am, am.arch)) IN
         IF score >= bestScore
         THEN flexibleLoop_lastWins(am, names, i + 1, score, names[i])
         ELSE flexibleLoop_lastWins(am, names, i + 1, bestScore, bestMatch)

\* The loop of findFlexibleMatch from candidate i on.
RECURSIVE flexibleLoop(_, _, _, _, _)
flexibleLoop(am, names, i, bestScore, bestMatch) ==
    IF i > Len(names) THEN [score |-> bestScore, match |-> bestMatch]
    ELSE LET score == scoreAsset(am, names[i], getOSAliases(am, am.os),
                                 getArchAliases(am, am.arch)) IN
         IF score > bestScore
         THEN flexibleLoop(am, names, i + 1, score, names[i])
         ELSE flexibleLoop(am, names, i + 1, bestScore, bestMatch)

findFlexibleMatch(am, names) ==
    LET best == flexibleLoop(am, names, 1, 0, "") IN
    IF best.score = 0 THEN [name |-> "", err |-> "NoFlexibleMatch"]
    ELSE [name |-> best.match, err |-> ""]

expandPattern(am, pattern, osAliases, archAliases) ==
    LET p1 == ReplaceAll(pattern, "{OS}", "(" \o Join(osAliases, "|") \o ")")
        p2 == ReplaceAll(p1, "{ARCH}", "(" \o Join(archAliases, "|") \o ")")
    IN  IF am.config.ProjectName # ""
        THEN ReplaceAll(p2, "{PROJECT}", am.config.ProjectName)
        ELSE p2

\* Variant: the candidates are walked first, the patterns inside.
customLoop_candidateFirst(am, names, i) ==
    LET matches(n) ==
            \E q \in i..Len(am.config.CustomPatterns) :
                MatchString(expandPattern(am, am.config.CustomPatterns[q],
                                          getOSAliases(am, am.os),
                                          getArchAliases(am, am.arch)), n)
        hits == SelectSeq(names, matches)
    IN  IF Len(hits) > 0 THEN [name |-> hits[1], err |-> ""]
        ELSE [name |-> "", err |-> "NoCustomMatch"]

\* The loop of findCustomMatch from pattern i on.
RECURSIVE customLoop(_, _, _)
customLoop(am, names, i) ==
    IF i > Len(am.config.CustomPatterns)
    THEN [name |-> "", err |-> "NoCustomMatch"]
    ELSE LET expandedPattern ==
                 expandPattern(am, am.config.CustomPatterns[i],
                               getOSAliases(am, am.os),
                               getArchAliases(am, am.arch))
             hits == SelectSeq(names,
                               LAMBDA n : MatchString(expandedPattern, n))
         IN  IF RegexCompiles(expandedPattern, 1) /\ Len(hits) > 0
             THEN [name |-> hits[1], err |-> ""]
             ELSE customLoop(am, names, i + 1)

findCustomMatch(am, names) ==
    IF Len(am.config.CustomPatterns) = 0
    THEN [name |-> "", err |-> "NoCustomMatch"]
    ELSE customLoop(am, names, 1)

findCDNMatch(am) ==
    IF am.config.CDNBaseURL = "" \/ am.config.CDNPattern = ""
    THEN [name |-> "", err |-> "CDNNotConfigured"]
    ELSE LET osName == getOSAliases(am, am.os)[1]
             archName == getArchAliases(am, am.arch)[1]
             cdnURL == am.config.CDNBaseURL \o am.config.CDNPattern
         IN  [name |-> ReplaceAll(ReplaceAll(cdnURL, "{os}", osName),
                                  "{arch}", archName),
              err |-> ""]

\* Variant: the result of the flexible match is returned as it is.
findHybridMatch_noFallback(am, names) ==
    findFlexibleMatch(am, names)

findHybridMatch(am, names) ==
    LET flex == findFlexibleMatch(am, names) IN
    IF Len(names) > 0 /\ flex.err = "" THEN flex
    ELSE findCDNMatch(am)

\* Variant: the CDN strategy is served before the list is looked at.
FindBestMatch_cdnFirst(am, names) ==
    IF am.config.Strategy = "CDN" THEN findCDNMatch(am)
    ELSE IF Len(names) = 0 THEN [name |-> "", err |-> "NoAssetsProvided"]
    ELSE LET filteredAssets == filterExcludedAssets(am, names) IN
         IF Len(filteredAssets) = 0
         THEN [name |-> "", err |-> "AllAssetsExcluded"]
         ELSE CASE am.config.Strategy = "Standard" ->
                       findStandardMatch(am, filteredAssets)
                [] am.config.Strategy = "Flexible" ->
                       findFlexibleMatch(am, filteredAssets)
                [] am.config.Strategy = "Custom" ->
                       findCustomMatch(am, filteredAssets)
                [] am.config.Strategy = "Hybrid" ->
                       findHybridMatch(am, filteredAssets)
                [] OTHER -> findFlexibleMatch(am, filteredAssets)

FindBestMatch(am, names) ==
    IF Len(names) = 0 THEN [name |-> "", err |-> "NoAssetsProvided"]
    ELSE LET filteredAssets == filterExcludedAssets(am, names) IN
         IF Len(filteredAssets) = 0
         THEN [name |-> "", err |-> "AllAssetsExcluded"]
         ELSE CASE am.config.Strategy = "Standard" ->
                       findStandardMatch(am, filteredAssets)
                [] am.config.Strategy = "Flexible" ->
                       findFlexibleMatch(am, filteredAssets)
                [] am.config.Strategy = "Custom" ->
                       findCustomMatch(am, filteredAssets)
                [] am.config.Strategy = "CDN" ->
                       findCDNMatch(am)
                [] am.config.Strategy = "Hybrid" ->
                       findHybridMatch(am, filteredAssets)
                [] OTHER -> findFlexibleMatch(am, filteredAssets)

-----------------------------------------------------------------------------
(* One resolution request: a matcher is built for the running platform and *)
(* FindBestMatch is called once with a list of asset names.                *)

Strategies == {"Standard", "Flexible", "Custom", "CDN", "Hybrid"}

\* runtime.GOOS / runtime.GOARCH of the hosts considered.
HostOS == {"linux", "darwin"}
HostArch == {"amd64", "arm64"}

\* Asset names as releases carry them.
NamePool ==
    {"k0s-v1.2.0-amd64", "k0s-airgap-bundle-v1.2.0-amd64",
     "app-Linux_x86_64.tar.gz", "unrelated.txt"}

\* The release the flexible scoring is exercised on.
FlexibleNamePool ==
    {"k0s-v1.2.0-amd64", "k0s-airgap-bundle-v1.2.0-arm64",
     "app-Linux_x86_64.tar.gz", "app-linux-amd64.zip", "unrelated.txt"}

ExcludePool == {<<>>, DefaultExcludePatterns}

\* Settings a caller puts on top of the default configuration.
Profiles ==
    {[ProjectName |-> "", IsDirectBinary |-> FALSE,
      PriorityPatterns |-> <<>>, CustomPatterns |-> <<>>,
      CDNBaseURL |-> "", CDNPattern |-> ""],
     [ProjectName |-> "k0s", IsDirectBinary |-> TRUE,
      PriorityPatterns |-> <<"^k0s-v.*-arm64$">>,
      CustomPatterns |-> <<"(bad", "{PROJECT}-v.*-{ARCH}$">>,
      CDNBaseURL |-> "", CDNPattern |-> ""],
     [ProjectName |-> "app", IsDirectBinary |-> FALSE,
      PriorityPatterns |-> <<"\\.zip$">>,
      CustomPatterns |-> <<"app-{OS}_{ARCH}\\.tar\\.gz">>,
      CDNBaseURL |-> "https://example.com/",
      CDNPattern |-> "{version}/x_{os}_{arch}.zip"]}

MatchingConfigs ==
    {[DefaultAssetMatchingConfig EXCEPT
         !.Strategy = st, !.ExcludePatterns = ex,
         !.ProjectName = pr.ProjectName,
         !.IsDirectBinary = pr.IsDirectBinary,
         !.PriorityPatterns = pr.PriorityPatterns,
         !.CustomPatterns = pr.CustomPatterns,
         !.CDNBaseURL = pr.CDNBaseURL,
         !.CDNPattern = pr.CDNPattern] :
       st \in Strategies, ex \in ExcludePool, pr \in Profiles}

\* All lists of at most n names of the pool, no name twice (the assets of a
\* release have distinct names).
ListsUpTo(pool, n) ==
    UNION {{l \in [1..k -> pool] :
               \A i, j \in 1..k : l[i] = l[j] => i = j} : k \in 0..n}

\* The transport plays no part in a resolution request.
TransportIdle ==
    /\ config = [DefaultHTTPClientConfig EXCEPT !.MaxRetries = 0,
                                               !.CircuitBreaker = FALSE]
    /\ failureCount = 0
    /\ lastFailure = ZeroTime
    /\ circuitOpen = FALSE
    /\ now = 0
    /\ pc = "idle"
    /\ attempt = 0
    /\ lastStatus = 0
    /\ result = "none"
    /\ resp = 0
    /\ requests = 0
    /\ retried = 0
    /\ calls = 0
    /\ only500 = TRUE
    /\ wasOpen = FALSE
    /\ late = FALSE
    /\ entryCount = 0
    /\ sinceOk = 0
    /\ gpc = [g \in Goroutines |-> "done"]
    /\ reg = [g \in Goroutines |-> 0]
    /\ count0 = 0
    /\ BackoffIdle

\* The receiver of the AssetMatcher methods in the current state.
Matcher == [config |-> amConfig, os |-> os, arch |-> arch]

\* NewAssetMatcher(config) on some host, and the list about to be resolved.
InitMatch ==
    /\ TransportIdle
    /\ os \in HostOS
    /\ arch \in HostArch
    /\ amConfig \in MatchingConfigs
    /\ assetNames \in ListsUpTo(NamePool, MaxAssets)
    /\ matchResult = [name |-> "", err |-> ""]
    /\ mpc = "ready"
    /\ filtered = <<>>
    /\ prevResult = [name |-> "", err |-> ""]
    /\ BuilderIdle
    /\ ReleaseIdle

\* matcher.FindBestMatch(assetNames)
Resolve ==
    /\ mpc = "ready"
    /\ matchResult' = FindBestMatch(Matcher, assetNames)
    /\ filtered' = IF Len(assetNames) = 0 THEN <<>>
                   ELSE filterExcludedAssets(Matcher, assetNames)
    /\ mpc' = "done"
    /\ UNCHANGED <<os, arch, amConfig, assetNames, prevResult, tvars, cvars,
                   bvars, uvars, rvars>>

NextMatch == Resolve

SpecMatch == InitMatch /\ [][NextMatch]_vars

\* The same request with the Flexible strategy and a longer release.
InitFlexible ==
    /\ TransportIdle
    /\ os \in HostOS
    /\ arch \in HostArch
    /\ amConfig \in {c \in MatchingConfigs : c.Strategy = "Flexible"}
    /\ assetNames \in ListsUpTo(FlexibleNamePool, MaxAssets)
    /\ matchResult = [name |-> "", err |-> ""]
    /\ mpc = "ready"
    /\ filtered = <<>>
    /\ prevResult = [name |-> "", err |-> ""]
    /\ BuilderIdle
    /\ ReleaseIdle

SpecFlexible == InitFlexible /\ [][NextMatch]_vars

\* One resolution request under the default configuration (Flexible) on any
\* platform of the alias tables, for a release that carries one asset named
\* after an alias of another platform and one named after an alias of the
\* running platform.
TableAliases(table, keys) ==
    UNION {{table[k][i] : i \in 1..Len(table[k])} : k \in keys}

NativeAliases(o, a) ==
    TableAliases(DefaultOSAliases, {o})
        \cup TableAliases(DefaultArchitectureAliases, {a})

ForeignAliases(o, a) ==
    TableAliases(DefaultOSAliases, DOMAIN DefaultOSAliases \ {o})
        \cup TableAliases(DefaultArchitectureAliases,
                          DOMAIN DefaultArchitectureAliases \ {a})

\* The name contains an alias of the platform o/a (without regard to case).
NamesPlatform(n, o, a) ==
    \E al \in NativeAliases(o, a) : Contains(ToLower(n), ToLower(al))

\* The name contains an alias of another platform and none of o/a.
NamesForeignOnly(n, o, a) ==
    /\ \E al \in ForeignAliases(o, a) : Contains(ToLower(n), ToLower(al))
    /\ ~NamesPlatform(n, o, a)

AssetNamed(alias) == "tool-" \o alias \o ".tar.gz"

InitPlatform ==
    /\ TransportIdle
    /\ os \in DOMAIN DefaultOSAliases
    /\ arch \in DOMAIN DefaultArchitectureAliases
    /\ amConfig = DefaultAssetMatchingConfig
    /\ \E f \in ForeignAliases(os, arch), n \in NativeAliases(os, arch) :
          /\ NamesForeignOnly(AssetNamed(f), os, arch)
          /\ assetNames = <<AssetNamed(f), AssetNamed(n)>>
    /\ matchResult = [name |-> "", err |-> ""]
    /\ mpc = "ready"
    /\ filtered = <<>>
    /\ prevResult = [name |-> "", err |-> ""]
    /\ BuilderIdle
    /\ ReleaseIdle

SpecPlatform == InitPlatform /\ [][NextMatch]_vars

-----------------------------------------------------------------------------
(* Properties of the Asset Resolution Engine *)

\* The score FindBestMatch gives a name in the current state.
ScoreOf(n) ==
    scoreAsset(Matcher, n, getOSAliases(Matcher, os),
               getArchAliases(Matcher, arch))

\* The name matches one of the configured exclusion patterns.
IsExcluded(n) ==
    \E q \in 1..Len(amConfig.ExcludePatterns) :
        MatchString(ToLower(amConfig.ExcludePatterns[q]), ToLower(n))

\* The candidates left after exclusion, in input order.
Survivors == SelectSeq(assetNames, LAMBDA n : ~IsExcluded(n))

\* C8: under the Flexible strategy resolve returns the surviving candidate
\* with the highest score, the earliest in input order among those sharing
\* the top score, and fails with NoFlexibleMatch when no surviving candidate
\* scores above zero.
C8_FlexibleHighestFirst ==
    (mpc = "done" /\ amConfig.Strategy = "Flexible")
    => LET surv == Survivors
           sc == [i \in 1..Len(surv) |-> ScoreOf(surv[i])]
       IN  Len(surv) > 0
           => IF \A i \in 1..Len(surv) : sc[i] <= 0
              THEN matchResult = [name |-> "", err |-> "NoFlexibleMatch"]
              ELSE \E i \in 1..Len(surv) :
                      /\ \A j \in 1..Len(surv) : sc[j] <= sc[i]
                      /\ \A j \in 1..(i - 1) : sc[j] < sc[i]
                      /\ matchResult = [name |-> surv[i], err |-> ""]

\* Two different candidates share the top score and the first one is chosen.
C8_Witness ==
    /\ mpc = "done" /\ amConfig.Strategy = "Flexible"
    /\ Len(Survivors) = 2 /\ Survivors[1] # Survivors[2]
    /\ ScoreOf(Survivors[1]) = ScoreOf(Survivors[2])
    /\ ScoreOf(Survivors[1]) > 0
    /\ matchResult = [name |-> Survivors[1], err |-> ""]

\* C9: flexible scoring is platform-exclusive: a candidate that names only a
\* foreign OS or architecture scores strictly lower than a candidate that
\* names the current platform, and resolve never returns the foreign one
\* when the native one is in the list.
C9_PlatformExclusive ==
    mpc = "done"
    => \A i, j \in 1..Len(assetNames) :
          (NamesForeignOnly(assetNames[i], os, arch)
              /\ NamesPlatform(assetNames[j], os, arch))
          => /\ ScoreOf(assetNames[i]) < ScoreOf(assetNames[j])
             /\ matchResult.name # assetNames[i]

\* C10: resolve fails with NoAssetsProvided exactly when the list is empty
\* and with AllAssetsExcluded exactly when the list is non-empty and every
\* candidate matches an exclusion pattern, whatever the strategy is.
C10_EmptyThenExcluded ==
    mpc = "done"
    => /\ (matchResult.err = "NoAssetsProvided") <=> (Len(assetNames) = 0)
       /\ (matchResult.err = "AllAssetsExcluded")
          <=> (/\ Len(assetNames) > 0
               /\ \A i \in 1..Len(assetNames) : IsExcluded(assetNames[i]))
       /\ matchResult.err \in {"NoAssetsProvided", "AllAssetsExcluded"}
          => matchResult.name = ""

\* A non-empty list whose names are all excluded, under a configured CDN
\* strategy.
C10_Witness ==
    /\ mpc = "done" /\ amConfig.Strategy = "CDN"
    /\ amConfig.CDNBaseURL # "" /\ amConfig.CDNPattern # ""
    /\ Len(assetNames) > 0
    /\ matchResult = [name |-> "", err |-> "AllAssetsExcluded"]

-----------------------------------------------------------------------------
(* Exclusion filtering on its own: one resolution request under every      *)
(* selection of exclusion patterns from a list, on names that differ from  *)
(* the patterns in case.                                                   *)

\* Patterns as configurations carry them; the last one does not compile.
ExcludePatternPool == <<"AIRGAP", "\\.asc$", "bundle", "(bad">>

FilterNamePool ==
    {"k0s-v1.2.0-amd64", "K0s-Airgap-Bundle-v1.2.0-amd64",
     "k0s-v1.2.0-amd64.asc", "k0s.ASC.txt"}

\* The elements of q at the positions where mask m is TRUE, in q's order.
RECURSIVE Pick(_, _, _)
Pick(q, m, i) ==
    IF i > Len(q) THEN <<>>
    ELSE (IF m[i] THEN <<q[i]>> ELSE <<>>) \o Pick(q, m, i + 1)

\* Every pattern list contained in q.
SubLists(q) == {Pick(q, m, 1) : m \in [1..Len(q) -> BOOLEAN]}

InitFilter ==
    /\ TransportIdle
    /\ os \in HostOS
    /\ arch \in HostArch
    /\ amConfig \in {[DefaultAssetMatchingConfig EXCEPT
                         !.Strategy = st, !.ExcludePatterns = q] :
                      st \in {"Standard", "Flexible"},
                      q \in SubLists(ExcludePatternPool)}
    /\ assetNames \in ListsUpTo(FilterNamePool, MaxAssets)
    /\ matchResult = [name |-> "", err |-> ""]
    /\ mpc = "ready"
    /\ filtered = <<>>
    /\ prevResult = [name |-> "", err |-> ""]
    /\ BuilderIdle
    /\ ReleaseIdle

SpecFilter == InitFilter /\ [][NextMatch]_vars

\* C11: exclusion filtering keeps exactly the candidates whose name matches
\* none of the exclusion patterns (regular-expression match without regard to
\* case), in their original order; hence for every pattern list P contained
\* in the configured list Q the survivors under Q are among those under P.
C11_FilterExactMonotone ==
    (mpc = "done" /\ Len(assetNames) > 0)
    => /\ filtered = SelectSeq(assetNames, LAMBDA n : ~IsExcluded(n))
       /\ \A P \in SubLists(amConfig.ExcludePatterns) :
             LET underP == filterExcludedAssets(
                     [Matcher EXCEPT !.config.ExcludePatterns = P],
                     assetNames)
             IN  \A i \in 1..Len(filtered) :
                    \E j \in 1..Len(underP) : underP[j] = filtered[i]

\* Of two candidates the first is dropped by a pattern that differs from it
\* in case and the second is kept, with several patterns configured.
C11_Witness ==
    /\ mpc = "done"
    /\ Len(amConfig.ExcludePatterns) >= 2
    /\ Len(assetNames) = 2
    /\ filtered = <<assetNames[2]>>
    /\ IsExcluded(assetNames[1])
    /\ ~\E q \in 1..Len(amConfig.ExcludePatterns) :
           MatchString(amConfig.ExcludePatterns[q], assetNames[1])

\* C12: when at least one candidate survives exclusion, resolve under the
\* Hybrid strategy returns what Flexible returns on the survivors if Flexible
\* succeeds, and the CDN result (the constructed URL or the configuration
\* error) if it does not; under Standard, Flexible and Custom a matching
\* failure is returned as it is, whether or not a CDN is configured.
C12_HybridFallback ==
    (mpc = "done" /\ Len(Survivors) > 0)
    => LET flex == findFlexibleMatch(Matcher, Survivors)
           own == CASE amConfig.Strategy = "Standard" ->
                           findStandardMatch(Matcher, Survivors)
                    [] amConfig.Strategy = "Custom" ->
                           findCustomMatch(Matcher, Survivors)
                    [] OTHER -> flex
       IN  /\ amConfig.Strategy = "Hybrid"
              => IF flex.err = "" THEN matchResult = flex
                 ELSE matchResult = findCDNMatch(Matcher)
           /\ (amConfig.Strategy \in {"Standard", "Flexible", "Custom"}
                  /\ own.err # "")
              => /\ matchResult.name = ""
                 /\ matchResult.err = own.err
                 /\ matchResult.err \in {"NoStandardMatch", "NoFlexibleMatch",
                                         "NoCustomMatch"}

\* Flexible finds nothing among the survivors of a Hybrid request and the URL
\* of the configured CDN is returned.
C12_Witness ==
    /\ mpc = "done" /\ amConfig.Strategy = "Hybrid"
    /\ Len(Survivors) > 0
    /\ \A i \in 1..Len(Survivors) : ScoreOf(Survivors[i]) <= 0
    /\ matchResult.err = ""
    /\ Contains(matchResult.name, amConfig.CDNBaseURL)
    /\ amConfig.CDNBaseURL # ""

-----------------------------------------------------------------------------
(* CDNDownloader (the "CDN URL Builder").  An operator that models a       *)
(* method takes the receiver as its first argument:                        *)
(* c = [BaseURL, Pattern, ArchMapping].                                    *)

HasPrefix(s, prefix) == HasPrefixAt(s, 1, prefix)

TrimPrefix(s, prefix) ==
    IF HasPrefix(s, prefix) THEN SubSeq(s, Len(prefix) + 1, Len(s)) ELSE s

NewCDNDownloader(baseURL, pattern) ==
    [BaseURL |-> baseURL, Pattern |-> pattern, ArchMapping |-> NilArchMapping]

NewCDNDownloaderWithArchMapping(baseURL, pattern, archMapping) ==
    [BaseURL |-> baseURL, Pattern |-> pattern, ArchMapping |-> archMapping]

FormatVersionForCDN(version, format) ==
    IF format = "with-v"
    THEN IF ~HasPrefix(version, "v") THEN "v" \o version ELSE version
    ELSE IF format = "without-v" THEN TrimPrefix(version, "v")
    ELSE version

\* Variant: the canonical mapping is used whatever the override map holds.
mapArchForCDN_canonicalOnly(c, a) ==
    MapArch(a)

mapArchForCDN(c, a) ==
    LET normalizedArch == ToLower(TrimSpace(a)) IN
    IF normalizedArch \in DOMAIN c.ArchMapping
    THEN c.ArchMapping[normalizedArch]
    ELSE MapArch(a)

ConstructURLWithVersionFormat(c, version, o, a, versionFormat) ==
    LET url0 == c.BaseURL \o c.Pattern
        v == FormatVersionForCDN(version, versionFormat)
        archToUse == mapArchForCDN(c, a)
        url1 == ReplaceAll(url0, "{version}", v)
        url2 == ReplaceAll(url1, "{os}", o)
    IN  ReplaceAll(url2, "{arch}", archToUse)

ConstructURL(c, version, o, a) ==
    ConstructURLWithVersionFormat(c, version, o, a, "as-is")

\* CDNArchMapping of GetHelmCDNConfig.
HelmArchMapping ==
    ("amd64" :> "amd64") @@ ("x86_64" :> "amd64") @@ ("x64" :> "amd64") @@
    ("arm64" :> "arm64") @@ ("aarch64" :> "arm64") @@
    ("arm" :> "arm") @@ ("armv6" :> "arm") @@ ("armv7" :> "arm") @@
    ("armhf" :> "arm") @@
    ("386" :> "386") @@ ("i386" :> "386") @@ ("i686" :> "386") @@
    ("x86" :> "386")

\* The mapping a caller configures for a CDN of its own.
CustomArchMapping ==
    ("amd64" :> "x86_64") @@ ("arm64" :> "aarch64") @@ ("386" :> "i386")

\* The downloader downloadFromCDN builds from a matching configuration.
DownloaderFor(cfg) ==
    IF cfg.CDNArchMapping # NilArchMapping
    THEN NewCDNDownloaderWithArchMapping(cfg.CDNBaseURL, cfg.CDNPattern,
                                         cfg.CDNArchMapping)
    ELSE NewCDNDownloader(cfg.CDNBaseURL, cfg.CDNPattern)

\* c.ConstructURLWithVersionFormat(version, o, a, f) on the downloader.
BuildURL(version, o, a, f) ==
    /\ upc = "ready"
    /\ cdnIn' = [version |-> version, os |-> o, arch |-> a, format |-> f]
    /\ versionToUse' = FormatVersionForCDN(version, f)
    /\ url' = ConstructURLWithVersionFormat(downloader, version, o, a, f)
    /\ upc' = "built"
    /\ UNCHANGED <<downloader, dlResult, tvars, cvars, mvars, bvars, rvars>>

\* The CDN configurations considered: Helm's, Terraform's (no architecture
\* mapping of its own) and a caller's own CDN.
CDNPresets ==
    {[CDNBaseURL |-> "https://get.helm.sh/",
      CDNPattern |-> "helm-{version}-{os}-{arch}.tar.gz",
      CDNVersionFormat |-> "with-v",
      CDNArchMapping |-> HelmArchMapping],
     [CDNBaseURL |-> "https://releases.hashicorp.com/terraform/",
      CDNPattern |-> "{version}/terraform_{version}_{os}_{arch}.zip",
      CDNVersionFormat |-> "without-v",
      CDNArchMapping |-> NilArchMapping],
     [CDNBaseURL |-> "https://custom-cdn.example.com/",
      CDNPattern |-> "binary-{version}-{os}-{arch}.tar.gz",
      CDNVersionFormat |-> "",
      CDNArchMapping |-> CustomArchMapping]}

\* Inputs of the URL builder.
Versions == {"3.1.0", "v3.1.0", "vv3.1.0", "v", "", "{version}"}
VersionFormats == {"as-is", "with-v", "without-v", "unknown-format", ""}
BuilderOS == {"linux", "darwin"}
BuilderArch == {"amd64", " AMD64 ", "x86_64", "arm64", "aarch64", "riscv64"}

\* The URL builder on its own: one call of ConstructURLWithVersionFormat on
\* a downloader built from one of the configurations.
InitBuilder ==
    /\ TransportIdle
    /\ MatcherIdle
    /\ downloader \in {DownloaderFor(pr) : pr \in CDNPresets}
    /\ cdnIn = [version |-> "", os |-> "", arch |-> "", format |-> ""]
    /\ versionToUse = ""
    /\ url = ""
    /\ dlResult = "none"
    /\ upc = "ready"
    /\ ReleaseIdle

NextBuilder ==
    \E version \in Versions, o \in BuilderOS, a \in BuilderArch,
       f \in VersionFormats : BuildURL(version, o, a, f)

SpecBuilder == InitBuilder /\ [][NextBuilder]_vars

\* Resolution under the CDN strategy next to the URL builder: a matcher and
\* the downloader of the same configuration on one host; FindBestMatch is
\* called once, and the builder once with the first aliases of the host.
CDNConfigs ==
    {[DefaultAssetMatchingConfig EXCEPT
         !.Strategy = "CDN",
         !.CDNBaseURL = pr.CDNBaseURL,
         !.CDNPattern = pr.CDNPattern,
         !.CDNVersionFormat = pr.CDNVersionFormat,
         !.CDNArchMapping = pr.CDNArchMapping] : pr \in CDNPresets}

InitCDN ==
    /\ TransportIdle
    /\ os \in HostOS
    /\ arch \in HostArch
    /\ amConfig \in CDNConfigs
    /\ assetNames \in ListsUpTo(NamePool, MaxAssets)
    /\ matchResult = [name |-> "", err |-> ""]
    /\ mpc = "ready"
    /\ filtered = <<>>
    /\ prevResult = [name |-> "", err |-> ""]
    /\ downloader = DownloaderFor(amConfig)
    /\ cdnIn = [version |-> "", os |-> "", arch |-> "", format |-> ""]
    /\ versionToUse = ""
    /\ url = ""
    /\ dlResult = "none"
    /\ upc = "ready"
    /\ ReleaseIdle

NextCDN ==
    \/ Resolve
    \/ \E version \in {"{version}", "v3.1.0"}, f \in {"as-is", "with-v"} :
          BuildURL(version, getOSAliases(Matcher, os)[1],
                   getArchAliases(Matcher, arch)[1], f)

SpecCDN == InitCDN /\ [][NextCDN]_vars

\* C13: the URL resolve returns under the CDN strategy equals what the URL
\* builder renders for the same base URL and template when it is given the
\* first alias of the current OS, the first alias of the current
\* architecture (the builder applying its architecture mapping and any
\* override) and the version placeholder as the version.
C13_ResolveEqualsBuilder ==
    (/\ mpc = "done" /\ amConfig.Strategy = "CDN" /\ matchResult.err = ""
     /\ upc = "built"
     /\ cdnIn = [version |-> "{version}",
                 os |-> getOSAliases(Matcher, os)[1],
                 arch |-> getArchAliases(Matcher, arch)[1],
                 format |-> "as-is"])
    => matchResult.name = url

\* C14: under the CDN strategy the result of resolve does not depend on the
\* candidate list: every list, the empty one and the all-excluded ones
\* included, yields the same constructed URL.
C14_CDNIgnoresList ==
    (mpc = "done" /\ amConfig.Strategy = "CDN"
        /\ amConfig.CDNBaseURL # "" /\ amConfig.CDNPattern # "")
    => /\ matchResult.err = ""
       /\ \A l \in ListsUpTo(NamePool, MaxAssets) :
             FindBestMatch(Matcher, l) = matchResult

\* C15: constructURL puts the override's value in place of the architecture
\* placeholder whenever the override map contains the lower-cased, trimmed
\* architecture, and the canonical mapping only when it does not; with an
\* override amd64 -> amd64 the URL contains amd64 and never x86_64.
C15_OverrideFirst ==
    upc = "built"
    => LET normalized == ToLower(TrimSpace(cdnIn.arch))
           overrides == downloader.ArchMapping
           expected == IF normalized \in DOMAIN overrides
                       THEN overrides[normalized]
                       ELSE MapArch(cdnIn.arch)
           filled == ReplaceAll(ReplaceAll(downloader.BaseURL
                                               \o downloader.Pattern,
                                           "{version}", versionToUse),
                                "{os}", cdnIn.os)
       IN  /\ url = ReplaceAll(filled, "{arch}", expected)
           /\ ("amd64" \in DOMAIN overrides /\ normalized = "amd64")
              => (overrides["amd64"] = "amd64"
                     => Contains(url, "amd64") /\ ~Contains(url, "x86_64"))

\* The builder is given " AMD64 " on a downloader whose override keeps amd64.
C15_Witness ==
    /\ upc = "built"
    /\ cdnIn.arch = " AMD64 "
    /\ "amd64" \in DOMAIN downloader.ArchMapping
    /\ downloader.ArchMapping["amd64"] = "amd64"
    /\ Contains(downloader.Pattern, "{arch}")
    /\ Contains(url, "-amd64.tar.gz")
    /\ MapArch(cdnIn.arch) = "x86_64"

\* C16: for every version string s, with-v returns s when s starts with v
\* and v followed by s otherwise; without-v returns s with its leading v
\* stripped, a string that has no leading v; as-is and every unrecognized
\* mode return s; so stripping a leading v from with-v(s) gives back s for
\* every s without a leading v.
C16_VersionFormat ==
    upc = "built"
    => LET s == cdnIn.version
           r == versionToUse
       IN  /\ cdnIn.format = "with-v"
              => /\ r = (IF HasPrefix(s, "v") THEN s ELSE "v" \o s)
                 /\ ~HasPrefix(s, "v") => TrimPrefix(r, "v") = s
           /\ cdnIn.format = "without-v"
              => /\ r = TrimPrefix(s, "v")
                 /\ ~HasPrefix(r, "v")
           /\ cdnIn.format \notin {"with-v", "without-v"} => r = s

-----------------------------------------------------------------------------
(* One resolution request under the Custom strategy. *)

\* Pattern lists of a caller: none, one whose first pattern does not
\* compile, one whose patterns prefer different assets, one with every
\* placeholder.
CustomPatternPool ==
    {<<>>,
     <<"(bad", "{PROJECT}-v.*-{ARCH}$">>,
     <<"\\.zip$", "app-{OS}">>,
     <<"^{PROJECT}-{OS}_{ARCH}\\.tar\\.gz$">>}

InitCustom ==
    /\ TransportIdle
    /\ os \in HostOS
    /\ arch \in HostArch
    /\ amConfig \in {[DefaultAssetMatchingConfig EXCEPT
                         !.Strategy = "Custom", !.CustomPatterns = cp,
                         !.ProjectName = pn, !.ExcludePatterns = ex] :
                      cp \in CustomPatternPool, pn \in {"k0s", "app"},
                      ex \in ExcludePool}
    /\ assetNames \in ListsUpTo(FlexibleNamePool, MaxAssets)
    /\ matchResult = [name |-> "", err |-> ""]
    /\ mpc = "ready"
    /\ filtered = <<>>
    /\ prevResult = [name |-> "", err |-> ""]
    /\ BuilderIdle
    /\ ReleaseIdle

SpecCustom == InitCustom /\ [][NextMatch]_vars

\* User pattern i after placeholder expansion, in the current state.
Expanded(i) ==
    expandPattern(Matcher, amConfig.CustomPatterns[i],
                  getOSAliases(Matcher, os), getArchAliases(Matcher, arch))

\* User pattern i compiles and matches surviving candidate k.
PatternHits(i, k) ==
    /\ RegexCompiles(Expanded(i), 1)
    /\ MatchString(Expanded(i), Survivors[k])

\* C17: under the Custom strategy resolve walks the user patterns in
\* declaration order, skips a pattern that does not compile after expansion,
\* and returns the first surviving candidate matched by the earliest pattern
\* that matches any; it fails with NoCustomMatch when the pattern list is
\* empty or no pattern compiles and matches.
C17_CustomPatternOrder ==
    (mpc = "done" /\ amConfig.Strategy = "Custom" /\ Len(Survivors) > 0)
    => LET np == Len(amConfig.CustomPatterns)
           ns == Len(Survivors)
       IN  IF \E i \in 1..np : \E k \in 1..ns : PatternHits(i, k)
           THEN \E i \in 1..np : \E k \in 1..ns :
                   /\ PatternHits(i, k)
                   /\ \A i2 \in 1..(i - 1) : \A k2 \in 1..ns :
                          ~PatternHits(i2, k2)
                   /\ \A k2 \in 1..(k - 1) : ~PatternHits(i, k2)
                   /\ matchResult = [name |-> Survivors[k], err |-> ""]
           ELSE matchResult = [name |-> "", err |-> "NoCustomMatch"]

\* The first pattern matches only the second candidate, the second pattern
\* matches the first candidate, and the second candidate is returned.
C17_Witness ==
    /\ mpc = "done" /\ amConfig.Strategy = "Custom"
    /\ Len(amConfig.CustomPatterns) = 2 /\ Len(Survivors) = 2
    /\ PatternHits(1, 2) /\ ~PatternHits(1, 1) /\ PatternHits(2, 1)
    /\ matchResult = [name |-> Survivors[2], err |-> ""]

\* The first pattern does not compile and the second one decides.
C17_WitnessSkip ==
    /\ mpc = "done" /\ amConfig.Strategy = "Custom"
    /\ Len(amConfig.CustomPatterns) = 2
    /\ ~RegexCompiles(Expanded(1), 1)
    /\ matchResult.err = ""

-----------------------------------------------------------------------------
(* Two resolution requests in a row on one matcher under the Standard      *)
(* strategy, with the same list.                                           *)

StandardNamePool ==
    {"app-Linux_x86_64.tar.gz", "app-Linux_x86_64.zip",
     "app-linux_x86_64.tar.gz", "app-Darwin_arm64.tar.gz",
     "app-Linux_x86_64.tar.gz.sha256"}

InitStandard ==
    /\ TransportIdle
    /\ os \in HostOS
    /\ arch \in HostArch
    /\ amConfig \in {[DefaultAssetMatchingConfig EXCEPT
                         !.Strategy = "Standard", !.ExcludePatterns = ex] :
                      ex \in ExcludePool}
    /\ assetNames \in ListsUpTo(StandardNamePool, MaxAssets)
    /\ matchResult = [name |-> "", err |-> ""]
    /\ mpc = "ready"
    /\ filtered = <<>>
    /\ prevResult = [name |-> "", err |-> ""]
    /\ BuilderIdle
    /\ ReleaseIdle

\* matcher.FindBestMatch(assetNames) once more, after the first call.
ResolveAgain ==
    /\ mpc = "done"
    /\ prevResult' = matchResult
    /\ matchResult' = FindBestMatch(Matcher, assetNames)
    /\ filtered' = IF Len(assetNames) = 0 THEN <<>>
                   ELSE filterExcludedAssets(Matcher, assetNames)
    /\ mpc' = "again"
    /\ UNCHANGED <<os, arch, amConfig, assetNames, tvars, cvars, bvars,
                   uvars, rvars>>

NextStandard == Resolve \/ ResolveAgain

SpecStandard == InitStandard /\ [][NextStandard]_vars

\* The surviving candidates whose name contains the Standard search key.
StandardHits ==
    {k \in 1..Len(Survivors) :
        Contains(Survivors[k], Title(os) \o "_" \o MapArch(arch))}

\* C18: under the Standard strategy resolve returns the first surviving
\* candidate, in input order, whose name contains Title(OS) "_" canonicalArch
\* and fails with NoStandardMatch when none does; a second call with the same
\* inputs returns what the first call returned.
C18_StandardFirstHit ==
    (mpc \in {"done", "again"} /\ amConfig.Strategy = "Standard"
        /\ Len(Survivors) > 0)
    => /\ IF StandardHits # {}
          THEN \E k \in StandardHits :
                  /\ \A k2 \in StandardHits : k <= k2
                  /\ matchResult = [name |-> Survivors[k], err |-> ""]
          ELSE matchResult = [name |-> "", err |-> "NoStandardMatch"]
       /\ mpc = "again" => matchResult = prevResult

\* Two surviving candidates contain the key; both calls return the first.
C18_Witness ==
    /\ mpc = "again" /\ amConfig.Strategy = "Standard"
    /\ Len(Survivors) = 2 /\ StandardHits = {1, 2}
    /\ matchResult = [name |-> Survivors[1], err |-> ""]
    /\ prevResult = matchResult

-----------------------------------------------------------------------------
(* The pauses of the retry loop: clients whose delays and backoff          *)
(* multiplier vary, in front of a backend that may send Retry-After.       *)

\* Values of the Retry-After header a 429 response may carry ("": absent).
RetryAfterHeaders == {"", "1", "60", "soon"}

\* HTTPClientConfig values: BackoffFactor 2.0 (the default) and 1.5, MaxDelay
\* 30 s (the default) and 2 s.
BackoffConfigs ==
    {[DefaultHTTPClientConfig EXCEPT !.MaxRetries = MaxRetriesBound,
                                     !.CircuitBreaker = FALSE,
                                     !.BackoffFactor = f,
                                     !.MaxDelay = d] :
        f \in {[num |-> 2, den |-> 1], [num |-> 3, den |-> 2]},
        d \in {2 * Second, 30 * Second}}

InitBackoff ==
    /\ config \in BackoffConfigs
    /\ failureCount = 0
    /\ lastFailure = ZeroTime
    /\ circuitOpen = FALSE
    /\ now = 0
    /\ pc = "idle"
    /\ attempt = 0
    /\ lastStatus = 0
    /\ result = "none"
    /\ resp = 0
    /\ requests = 0
    /\ retried = 0
    /\ calls = 0
    /\ only500 = TRUE
    /\ wasOpen = FALSE
    /\ late = FALSE
    /\ entryCount = 0
    /\ sinceOk = 0
    /\ gpc = [g \in Goroutines |-> "done"]
    /\ reg = [g \in Goroutines |-> 0]
    /\ count0 = 0
    /\ MatcherIdle
    /\ headers = RetryAfterHeaders
    /\ retryAfter = ""
    /\ pause = 0
    /\ BuilderIdle
    /\ ReleaseIdle

SpecBackoff == InitBackoff /\ [][Next]_vars

\* base x BackoffFactor^n, the factor taken as the fraction it is.
ScaledDelay(base, n) ==
    (base * Pow(config.BackoffFactor.num, n)) \div Pow(config.BackoffFactor.den, n)

CappedDelay(d) == IF d > config.MaxDelay THEN config.MaxDelay ELSE d

\* C19: the pause after a retryable failure of attempt n, before attempt
\* n+1, is min(MaxDelay, d): d is the Retry-After value in seconds for a 429
\* that carries it, RateLimitDelay x BackoffFactor^n for a 429 without it and
\* InitialDelay x BackoffFactor^n for any other retryable failure; no pause
\* exceeds MaxDelay.
C19_PauseFormula ==
    /\ (pc = "rateLimitWait" /\ attempt < config.MaxRetries)
        => pause = CappedDelay(
                      IF Atoi(retryAfter).ok
                      THEN Atoi(retryAfter).val * Second
                      ELSE ScaledDelay(config.RateLimitDelay, attempt))
    /\ pc = "backoffWait"
        => pause = CappedDelay(ScaledDelay(config.InitialDelay, attempt))
    /\ pause <= config.MaxDelay

\* The parts of C19 apart from the 429 without a usable Retry-After.
C19_OtherPauses ==
    /\ (pc = "rateLimitWait" /\ attempt < config.MaxRetries
            /\ Atoi(retryAfter).ok)
        => pause = CappedDelay(Atoi(retryAfter).val * Second)
    /\ pc = "backoffWait"
        => pause = CappedDelay(ScaledDelay(config.InitialDelay, attempt))
    /\ pause <= config.MaxDelay

-----------------------------------------------------------------------------
(* A CDN download on a host whose application also owns a                  *)
(* RetryableHTTPClient: calls of Do and one download, in any order.        *)

\* Versions and version formats handed to the download.
DownloadVersions == {"v3.1.0"}
DownloadFormats == {"as-is"}

\* What the CDN answers to the download, and what the API answers to Do.
DownloadOutcomes == {TransportError, StatusOK, StatusNotFound,
                     StatusInternalServerError}
DownloadReplies ==
    {[status |-> o, fileOk |-> TRUE] : o \in DownloadOutcomes}
        \cup {[status |-> StatusOK, fileOk |-> FALSE]}
ApiOutcomes == {StatusOK, StatusTooManyRequests, StatusInternalServerError}

\* c.DownloadWithVersionFormat(version, destinationPath, f) on the running
\* platform: the architecture is mapped, the URL built (which maps it again),
\* one GET is sent with c.HTTPClient, an http.Client, and the body is copied
\* to the destination file; fileOk says whether creating and writing the
\* file succeed.
Download(version, f, o, fileOk) ==
    /\ upc = "ready"
    /\ pc = "idle"
    /\ LET osName == os
           archName == mapArchForCDN(downloader, arch)
       IN  /\ cdnIn' = [version |-> version, os |-> osName,
                        arch |-> archName, format |-> f]
           /\ url' = ConstructURLWithVersionFormat(downloader, version,
                                                   osName, archName, f)
    /\ versionToUse' = FormatVersionForCDN(version, f)
    /\ dlResult' = IF o = TransportError THEN "TransportError"
                   ELSE IF o # StatusOK THEN "CDNDownloadFailed"
                   ELSE IF ~fileOk THEN "FileError"
                   ELSE "ok"
    /\ upc' = "downloaded"
    /\ UNCHANGED <<downloader, tvars, cvars, mvars, bvars, rvars>>

InitDownload ==
    /\ config = [DefaultHTTPClientConfig EXCEPT !.MaxRetries = 1]
    /\ failureCount = 0
    /\ lastFailure = ZeroTime
    /\ circuitOpen = FALSE
    /\ now = 0
    /\ pc = "idle"
    /\ attempt = 0
    /\ lastStatus = 0
    /\ result = "none"
    /\ resp = 0
    /\ requests = 0
    /\ retried = 0
    /\ calls = 0
    /\ only500 = TRUE
    /\ wasOpen = FALSE
    /\ late = FALSE
    /\ entryCount = 0
    /\ sinceOk = 0
    /\ gpc = [g \in Goroutines |-> "done"]
    /\ reg = [g \in Goroutines |-> 0]
    /\ count0 = 0
    /\ os = "linux"
    /\ arch = "arm64"
    /\ amConfig = [Strategy |-> "CDN"]
    /\ assetNames = <<>>
    /\ matchResult = [name |-> "", err |-> ""]
    /\ mpc = "idle"
    /\ filtered = <<>>
    /\ prevResult = [name |-> "", err |-> ""]
    /\ BackoffIdle
    /\ downloader \in {DownloaderFor(pr) : pr \in CDNPresets}
    /\ cdnIn = [version |-> "", os |-> "", arch |-> "", format |-> ""]
    /\ versionToUse = ""
    /\ url = ""
    /\ dlResult = "none"
    /\ upc = "ready"
    /\ ReleaseIdle

NextDownload ==
    \/ Tick
    \/ DoEnter
    \/ \E o \in ApiOutcomes : DoAttempt(o)
    \/ DoAfterRateLimit
    \/ DoAfterBackoff
    \/ \E version \in DownloadVersions, f \in DownloadFormats,
          r \in DownloadReplies :
            Download(version, f, r.status, r.fileOk)

SpecDownload == InitDownload /\ [][NextDownload]_vars

\* C20: downloadTo sends its GET through the Resilient Transport: while the
\* transport's circuit is open the download is rejected before a request is
\* issued, a download whose request could not be completed is recorded in the
\* transport's failure counter, and a download that succeeds resets it.
C20_DownloadThroughTransport ==
    [][(upc = "ready" /\ upc' = "downloaded")
        => /\ (config.CircuitBreaker /\ isCircuitOpen.open)
                => dlResult' = "CircuitOpen"
           /\ dlResult' = "TransportError"
                => (failureCount' >= 1 /\ lastFailure' = now)
           /\ dlResult' = "ok" => (failureCount' = 0 /\ ~circuitOpen')]_vars

\* What the download does instead: its request is issued whatever the state
\* of the circuit, and the circuit fields stay as they were.
C20_DownloadBypassesTransport ==
    [][(upc = "ready" /\ upc' = "downloaded")
        => /\ dlResult' \in {"TransportError", "CDNDownloadFailed",
                              "FileError", "ok"}
           /\ UNCHANGED <<failureCount, lastFailure, circuitOpen>>]_vars

\* A download went out, and succeeded, while the transport's circuit was open.
C20_OpenCircuitDownload ==
    /\ upc = "downloaded" /\ dlResult = "ok"
    /\ config.CircuitBreaker /\ isCircuitOpen.open
    /\ failureCount >= FailureThreshold

-----------------------------------------------------------------------------
(* The release clients: GithubRelease and GitLabRelease on a host, in      *)
(* front of a release API that serves one latest release (apiReply, with   *)
(* the assets assetNames) and of a CDN.                                    *)

\* asset.BrowserDownloadUrl / link.DirectAssetUrl of the asset called name.
AssetURL(name) == "https://assets.example.com/" \o name

InList(x, list) == \E i \in 1..Len(list) : list[i] = x

\* The first name of the list that contains key, "" when none does.
FirstContaining(names, key, fold) ==
    LET hits == SelectSeq(names, LAMBDA n :
                    Contains(IF fold THEN ToLower(n) ELSE n, key))
    IN  IF Len(hits) > 0 THEN hits[1] ELSE ""

\* GithubReleaseResponse.getLegacyReleaseLink: the asset it picks.
githubLegacyAsset(names) ==
    FirstContaining(names, Title(os) \o "_" \o MapArch(arch), FALSE)

\* GetArchVariants, for the architectures the hosts here have.
GetArchVariants(a) ==
    LET n == ToLower(TrimSpace(a)) IN
    CASE n \in {"amd64", "x86_64", "x64"} -> <<"x86_64", "amd64", "x64">>
      [] n \in {"arm64", "aarch64"} -> <<"arm64", "aarch64">>
      [] n \in {"arm", "armv6", "armv7", "armhf"} ->
             <<"arm", "armv6", "armv7", "armhf">>
      [] n \in {"386", "i386", "i686", "x86"} ->
             <<"i386", "386", "i686", "x86">>
      [] OTHER -> <<a>>

RECURSIVE variantLoop(_, _, _)
variantLoop(names, variants, i) ==
    IF i > Len(variants) THEN ""
    ELSE LET hit == FirstContaining(names,
                        Title(os) \o "_" \o variants[i], FALSE)
         IN  IF hit # "" THEN hit ELSE variantLoop(names, variants, i + 1)

\* GitlabReleaseResponse.getLegacyReleaseLink: the asset it picks.
gitlabLegacyAsset(names) ==
    LET primary == FirstContaining(names,
                       Title(os) \o "_" \o MapArch(arch), FALSE)
        variant == variantLoop(names, GetArchVariants(arch), 1)
        fallback == FirstContaining(names,
                        ToLower(os) \o "_" \o ToLower(MapArch(arch)), TRUE)
    IN  IF primary # "" THEN primary
        ELSE IF variant # "" THEN variant
        ELSE fallback

\* GetReleaseLinkWithConfig of either response type: the link it returns,
\* "" when it returns none.
GetReleaseLinkWithConfig(provider, cfg, names) ==
    LET matcher == [config |-> cfg, os |-> os, arch |-> arch]
        best == FindBestMatch(matcher, names)
        legacy == IF provider = "gitlab" THEN gitlabLegacyAsset(names)
                  ELSE githubLegacyAsset(names)
    IN  IF best.err # ""
        THEN (IF legacy = "" THEN "" ELSE AssetURL(legacy))
        ELSE IF InList(best.name, names) THEN AssetURL(best.name)
        ELSE ""

\* How one download request ends: DownloadWithVersionFormat and DownloadFile
\* check the transport error, the status and the file in the same order.
downloadOutcome(o, fileOk) ==
    IF o = TransportError THEN "TransportError"
    ELSE IF o # StatusOK THEN "DownloadFailed"
    ELSE IF ~fileOk THEN "FileError"
    ELSE ""

\* GetLatestRelease of either client, on the client g after the requests in
\* log: the client, the requests and the error it returns with.  link is
\* what GetReleaseLinkWithConfig yields on the response served.  The tag is
\* stored before the link is looked for.
GetLatestRelease(g, log, link) ==
    LET sent == Append(log, [kind |-> "api", url |-> ""])
        tagged == [g EXCEPT !.Version = apiReply.TagName]
    IN  IF apiReply.status = TransportError
        THEN [g |-> g, log |-> sent, err |-> "ApiRequestFailed"]
        ELSE IF apiReply.status # StatusOK
        THEN [g |-> g, log |-> sent, err |-> "ApiStatus"]
        ELSE IF link = ""
        THEN [g |-> tagged, log |-> sent, err |-> "NoSuitableAsset"]
        ELSE [g |-> [tagged EXCEPT !.ReleaseLink = link], log |-> sent,
              err |-> ""]

\* Variant: the version is looked up even when the client holds one.
cdnVersion_alwaysLookUp(g, log, disc, link) ==
    IF g.provider = "github"
    THEN LET probed == Append(log, [kind |-> "discover", url |-> ""]) IN
         IF disc # ""
         THEN [g |-> [g EXCEPT !.Version = disc], log |-> probed, err |-> ""]
         ELSE GetLatestRelease(g, probed, link)
    ELSE GetLatestRelease(g, log, link)

\* The first part of downloadFromCDN: the version, when the client has none.
\* disc is what TryDiscoverLatestVersion returns ("" when it fails); only
\* GithubRelease probes the CDN.
cdnVersion(g, log, disc, link) ==
    IF g.Version # "" THEN [g |-> g, log |-> log, err |-> ""]
    ELSE IF g.provider = "github"
    THEN LET probed == Append(log, [kind |-> "discover", url |-> ""]) IN
         IF disc # ""
         THEN [g |-> [g EXCEPT !.Version = disc], log |-> probed, err |-> ""]
         ELSE GetLatestRelease(g, probed, link)
    ELSE GetLatestRelease(g, log, link)

\* The URL DownloadWithVersionFormat requests on this host.
downloadRequestURL(c, version, f) ==
    ConstructURLWithVersionFormat(c, version, os, mapArchForCDN(c, arch), f)

\* The second part of downloadFromCDN and of DownloadCDNVersion: the
\* downloader of the configuration and its DownloadWithVersionFormat.
cdnDownload(g, log, o, fileOk) ==
    LET c == DownloaderFor(amConfig)
        f == IF amConfig.CDNVersionFormat = "" THEN "as-is"
             ELSE amConfig.CDNVersionFormat
        u == downloadRequestURL(c, g.Version, f)
    IN  [g |-> g, log |-> Append(log, [kind |-> "cdn", url |-> u]),
         err |-> downloadOutcome(o, fileOk)]

downloadFromCDN(g, log, disc, link, o, fileOk) ==
    LET v == cdnVersion(g, log, disc, link) IN
    IF v.err # "" THEN [v EXCEPT !.err = "VersionInfoFailed"]
    ELSE cdnDownload(v.g, v.log, o, fileOk)

\* DownloadLatestRelease of either client.
RunDownloadLatestRelease(g, log, disc, link, o, fileOk) ==
    IF amConfig.Strategy \in {"CDN", "Hybrid"}
    THEN downloadFromCDN(g, log, disc, link, o, fileOk)
    ELSE LET r == GetLatestRelease(g, log, link) IN
         IF r.err # "" THEN [r EXCEPT !.err = "LatestReleaseFailed"]
         ELSE IF r.g.Version = "" \/ r.g.ReleaseLink = ""
         THEN [r EXCEPT !.err = "NoValidRelease"]
         ELSE [g |-> r.g,
               log |-> Append(r.log, [kind |-> "asset",
                                      url |-> r.g.ReleaseLink]),
               err |-> downloadOutcome(o, fileOk)]

\* DownloadCDNVersion(version), GithubRelease only.
RunDownloadCDNVersion(g, log, version, o, fileOk) ==
    IF amConfig.Strategy \notin {"CDN", "Hybrid"}
    THEN [g |-> g, log |-> log, err |-> "NotCDNStrategy"]
    ELSE IF amConfig.CDNBaseURL = "" \/ amConfig.CDNPattern = ""
    THEN [g |-> g, log |-> log, err |-> "CDNIncomplete"]
    ELSE cdnDownload([g EXCEPT !.Version = version], log, o, fileOk)

\* g.DownloadLatestRelease() on the client.
DownloadLatestRelease(disc, o, fileOk) ==
    /\ rpc = "ready"
    /\ \E link \in {GetReleaseLinkWithConfig(grelease.provider, amConfig,
                                              assetNames)} :
       \E r \in {RunDownloadLatestRelease(grelease, netLog, disc, link, o,
                                          fileOk)} :
           /\ grelease' = r.g
           /\ netLog' = r.log
           /\ rerr' = r.err
    /\ rpc' = "done"
    /\ UNCHANGED <<apiReply, tvars, cvars, mvars, bvars, uvars>>

\* g.DownloadCDNVersion(version) on the client.
DownloadCDNVersion(version, o, fileOk) ==
    /\ rpc = "ready"
    /\ grelease.provider = "github"
    /\ \E r \in {RunDownloadCDNVersion(grelease, netLog, version, o, fileOk)} :
           /\ grelease' = r.g
           /\ netLog' = r.log
           /\ rerr' = r.err
    /\ rpc' = "called"
    /\ UNCHANGED <<apiReply, tvars, cvars, mvars, bvars, uvars>>

\* Assets of the latest release the API serves.
ReleaseAssetPool ==
    {"helm-v3.1.0-linux-amd64.tar.gz", "helm_Linux_x86_64.tar.gz",
     "helm_Linux_x86_64.tar.gz.sha256", "helm-v3.1.0-darwin-arm64.tar.gz"}

\* The configurations of the clients: the CDN presets under the CDN and the
\* Hybrid strategy, and the default configuration (Flexible, no CDN).
ReleaseConfigs ==
    {[c EXCEPT !.Strategy = st] :
        c \in {k \in CDNConfigs : k.CDNVersionFormat # ""},
        st \in {"CDN", "Hybrid"}}
    \cup {DefaultAssetMatchingConfig}

\* Answers of the release API: no answer, a release with a tag, a release
\* without one.
ApiReplies ==
    {[status |-> TransportError, TagName |-> ""],
     [status |-> StatusOK, TagName |-> "v3.1.0"],
     [status |-> StatusOK, TagName |-> ""]}

\* Answers to a download request: the file, or a server error.
ReleaseReplies ==
    {[status |-> StatusOK, fileOk |-> TRUE],
     [status |-> StatusInternalServerError, fileOk |-> TRUE]}

PresetVersions == {"", "v3.0.0"}
DiscoveredVersions == {"", "v3.2.0"}

\* A client built by NewGithubReleaseWithAssetConfig or NewGitlabRelease on a
\* linux/amd64 host, its Version preset or not.
InitRelease ==
    /\ TransportIdle
    /\ os = "linux"
    /\ arch = "amd64"
    /\ amConfig \in ReleaseConfigs
    /\ assetNames \in ListsUpTo(ReleaseAssetPool, MaxAssets)
    /\ matchResult = [name |-> "", err |-> ""]
    /\ mpc = "idle"
    /\ filtered = <<>>
    /\ prevResult = [name |-> "", err |-> ""]
    /\ BuilderIdle
    /\ grelease \in {[provider |-> pv, Version |-> v, ReleaseLink |-> ""] :
                        pv \in {"github", "gitlab"}, v \in PresetVersions}
    /\ apiReply \in ApiReplies
    /\ netLog = <<>>
    /\ rerr = "none"
    /\ rpc = "ready"

NextRelease ==
    \/ \E disc \in DiscoveredVersions, r \in ReleaseReplies :
          DownloadLatestRelease(disc, r.status, r.fileOk)
    \/ \E version \in PresetVersions, r \in ReleaseReplies :
          DownloadCDNVersion(version, r.status, r.fileOk)

SpecRelease == InitRelease /\ [][NextRelease]_vars

\* The requests of one kind the client has sent.
Sent(kind) == {i \in 1..Len(netLog) : netLog[i].kind = kind}

\* C21: with the CDN strategy, no preset version and CDN discovery failing,
\* DownloadLatestRelease takes the version from the release API and then
\* downloads from the CDN: whenever the API answered with a release that has a
\* tag, a GET to the CDN follows the API request, whatever the assets.
C21_ApiVersionThenCDN ==
    (rpc = "done" /\ amConfig.Strategy = "CDN" /\ Sent("api") # {}
        /\ apiReply.status = StatusOK /\ apiReply.TagName # "")
    => /\ grelease.Version = apiReply.TagName
       /\ Sent("cdn") # {}
       /\ \A i \in Sent("api"), j \in Sent("cdn") : i < j

\* The API answered with a tagged release and no CDN request followed.
C21_NoDownload ==
    /\ rpc = "done" /\ amConfig.Strategy = "CDN" /\ Sent("api") # {}
    /\ apiReply.status = StatusOK /\ apiReply.TagName # ""
    /\ Len(assetNames) > 0
    /\ Sent("cdn") = {} /\ rerr = "VersionInfoFailed"

ReleaseAssetMatch ==
    FindBestMatch([config |-> [amConfig EXCEPT !.Strategy = "Flexible"],
                   os |-> os, arch |-> arch], assetNames)

\* C23: with the Hybrid strategy DownloadLatestRelease first looks for a
\* matching asset in the release and downloads that asset when there is one;
\* the CDN URL is requested only when the release has no suitable asset.
C23_HybridReleaseFirst ==
    (rpc = "done" /\ amConfig.Strategy = "Hybrid")
    => /\ Sent("api") # {}
       /\ (apiReply.status = StatusOK /\ apiReply.TagName # "")
            => IF ReleaseAssetMatch.err = ""
               THEN /\ Sent("cdn") = {}
                    /\ netLog[Len(netLog)] =
                          [kind |-> "asset",
                           url |-> AssetURL(ReleaseAssetMatch.name)]
               ELSE /\ Sent("asset") = {}
                    /\ netLog[Len(netLog)].kind = "cdn"

\* What the Hybrid client does: it never downloads a release asset.
C23_HybridNeverAsset ==
    (rpc = "done" /\ amConfig.Strategy = "Hybrid") => Sent("asset") = {}

-----------------------------------------------------------------------------
(* ValidateCDNConfig on configurations a caller may write.                 *)

\* Variant: the {arch} placeholder is not asked for.
ValidateCDNConfig_noArchCheck(cfg) ==
    IF cfg.Strategy \notin {"CDN", "Hybrid"} THEN ""
    ELSE IF cfg.CDNBaseURL = "" THEN "MissingBaseURL"
    ELSE IF cfg.CDNPattern = "" THEN "MissingPattern"
    ELSE IF ~Contains(cfg.CDNPattern, "{version}") THEN "MissingVersion"
    ELSE IF ~cfg.IsDirectBinary /\ ~Contains(cfg.CDNPattern, "{os}")
    THEN "MissingOS"
    ELSE IF cfg.CDNVersionFormat # ""
            /\ ~InList(cfg.CDNVersionFormat,
                       <<"as-is", "with-v", "without-v">>)
    THEN "InvalidVersionFormat"
    ELSE ""

\* ValidateCDNConfig: the error it returns, "" for nil.
ValidateCDNConfig(cfg) ==
    IF cfg.Strategy \notin {"CDN", "Hybrid"} THEN ""
    ELSE IF cfg.CDNBaseURL = "" THEN "MissingBaseURL"
    ELSE IF cfg.CDNPattern = "" THEN "MissingPattern"
    ELSE IF ~Contains(cfg.CDNPattern, "{version}") THEN "MissingVersion"
    ELSE IF ~cfg.IsDirectBinary /\ ~Contains(cfg.CDNPattern, "{os}")
    THEN "MissingOS"
    ELSE IF ~cfg.IsDirectBinary /\ ~Contains(cfg.CDNPattern, "{arch}")
    THEN "MissingArch"
    ELSE IF cfg.CDNVersionFormat # ""
            /\ ~InList(cfg.CDNVersionFormat,
                       <<"as-is", "with-v", "without-v">>)
    THEN "InvalidVersionFormat"
    ELSE ""

\* err := ValidateCDNConfig(config)
Validate ==
    /\ rpc = "ready"
    /\ rerr' = ValidateCDNConfig(amConfig)
    /\ rpc' = "validated"
    /\ UNCHANGED <<grelease, apiReply, netLog, tvars, cvars, mvars, bvars,
                   uvars>>

ValidatePatterns ==
    {"", "binary-{version}-{os}-{arch}.tar.gz", "binary-{os}-{arch}.tar.gz",
     "binary-{version}", "binary-{version}-{os}", "binary-{version}-{arch}",
     "binary-{VERSION}-{os}-{arch}"}

ValidateFormats ==
    {"", "as-is", "with-v", "without-v", "invalid-format", "With-V"}

ValidateConfigs ==
    {[DefaultAssetMatchingConfig EXCEPT
         !.Strategy = st, !.CDNBaseURL = b, !.CDNPattern = pt,
         !.IsDirectBinary = d, !.CDNVersionFormat = f] :
        st \in {"Standard", "Flexible", "Custom", "CDN", "Hybrid"},
        b \in {"", "https://example.com/"}, pt \in ValidatePatterns,
        d \in BOOLEAN, f \in ValidateFormats}

InitValidate ==
    /\ TransportIdle
    /\ os = "linux"
    /\ arch = "amd64"
    /\ amConfig \in ValidateConfigs
    /\ assetNames = <<>>
    /\ matchResult = [name |-> "", err |-> ""]
    /\ mpc = "idle"
    /\ filtered = <<>>
    /\ prevResult = [name |-> "", err |-> ""]
    /\ BuilderIdle
    /\ grelease = [provider |-> "", Version |-> "", ReleaseLink |-> ""]
    /\ apiReply = [status |-> 0, TagName |-> ""]
    /\ netLog = <<>>
    /\ rerr = "none"
    /\ rpc = "ready"

NextValidate == Validate

SpecValidate == InitValidate /\ [][NextValidate]_vars

\* C24: ValidateCDNConfig returns an error if and only if the strategy is CDN
\* or Hybrid and the base URL is empty, or the template is empty, or the
\* template lacks the version placeholder, or the target is not a direct
\* binary and the template lacks the OS or the architecture placeholder, or a
\* non-empty version format is none of as-is, with-v, without-v; a
\* configuration with any other strategy is accepted.
C24_ValidateIff ==
    rpc = "validated"
    => ((rerr # "")
        <=> /\ amConfig.Strategy \in {"CDN", "Hybrid"}
            /\ \/ amConfig.CDNBaseURL = ""
               \/ amConfig.CDNPattern = ""
               \/ ~Contains(amConfig.CDNPattern, "{version}")
               \/ /\ ~amConfig.IsDirectBinary
                  /\ \/ ~Contains(amConfig.CDNPattern, "{os}")
                     \/ ~Contains(amConfig.CDNPattern, "{arch}")
               \/ /\ amConfig.CDNVersionFormat # ""
                  /\ amConfig.CDNVersionFormat
                        \notin {"as-is", "with-v", "without-v"})

\* An archive configuration whose template lacks only {arch} is rejected.
C24_Witness ==
    /\ rpc = "validated" /\ amConfig.Strategy = "Hybrid"
    /\ ~amConfig.IsDirectBinary
    /\ amConfig.CDNPattern = "binary-{version}-{os}"
    /\ amConfig.CDNBaseURL # "" /\ amConfig.CDNVersionFormat = "with-v"
    /\ rerr = "MissingArch"

-----------------------------------------------------------------------------
(* Direct binaries named <project>-<version>-<arch>, one per architecture, *)
(* resolved on hosts of each architecture of the alias table.              *)

ArchOnlyHosts == {"amd64", "arm64", "arm", "386"}

\* The direct binary of a release for the architecture a.
ArchOnlyName(a) == "k0s-v1.2.0-" \o a

ArchOnlyPool == {ArchOnlyName(a) : a \in ArchOnlyHosts}

InitArchOnly ==
    /\ TransportIdle
    /\ os = "linux"
    /\ arch \in ArchOnlyHosts
    /\ amConfig \in {[DefaultAssetMatchingConfig EXCEPT
                         !.IsDirectBinary = TRUE, !.ProjectName = pn] :
                      pn \in {"", "k0s"}}
    /\ assetNames \in ListsUpTo(ArchOnlyPool, Cardinality(ArchOnlyPool))
    /\ matchResult = [name |-> "", err |-> ""]
    /\ mpc = "ready"
    /\ filtered = <<>>
    /\ prevResult = [name |-> "", err |-> ""]
    /\ BuilderIdle
    /\ ReleaseIdle

SpecArchOnly == InitArchOnly /\ [][NextMatch]_vars

\* C25: on a host of any architecture of the alias table, given direct
\* binaries named <project>-<version>-<arch> without an OS, Flexible
\* resolution succeeds and returns the candidate that names the host
\* architecture, with or without a configured project name.
C25_ArchOnlyResolves ==
    (mpc = "done" /\ InList(ArchOnlyName(arch), assetNames))
    => matchResult = [name |-> ArchOnlyName(arch), err |-> ""]

\* The hosts other than arm64 are served as the claim says.
C25_OtherHosts ==
    (mpc = "done" /\ InList(ArchOnlyName(arch), assetNames)
        /\ (arch # "arm64" \/ amConfig.ProjectName # ""))
    => matchResult = [name |-> ArchOnlyName(arch), err |-> ""]

-----------------------------------------------------------------------------
(* One candidate named after an alias of some architecture, resolved with  *)
(* the Flexible strategy and with a Custom pattern that uses {ARCH}.       *)

AliasName(al) == "tool-" \o al

AliasPool ==
    UNION {{AliasName(DefaultArchitectureAliases[a][i]) :
               i \in 1..Len(DefaultArchitectureAliases[a])} :
           a \in ArchOnlyHosts}

AliasConfigs ==
    {[DefaultAssetMatchingConfig EXCEPT !.IsDirectBinary = TRUE],
     [DefaultAssetMatchingConfig EXCEPT
         !.IsDirectBinary = TRUE, !.Strategy = "Custom",
         !.CustomPatterns = <<"^tool-{ARCH}$">>]}

InitAlias ==
    /\ TransportIdle
    /\ os = "linux"
    /\ arch \in ArchOnlyHosts
    /\ amConfig \in AliasConfigs
    /\ assetNames \in {<<n>> : n \in AliasPool}
    /\ matchResult = [name |-> "", err |-> ""]
    /\ mpc = "ready"
    /\ filtered = <<>>
    /\ prevResult = [name |-> "", err |-> ""]
    /\ BuilderIdle
    /\ ReleaseIdle

SpecAlias == InitAlias /\ [][NextMatch]_vars

\* The candidate is named after one of the configured aliases of the host.
NamedAfterHostAlias ==
    \E i \in 1..Len(amConfig.ArchitectureAliases[arch]) :
        assetNames[1] = AliasName(amConfig.ArchitectureAliases[arch][i])

\* C26: the alias set used for scoring and for {ARCH} expansion is the full
\* configured alias list of the host architecture (amd64, x86_64, x64 on
\* amd64; 386, i386, i686, x86 on 386), so a candidate whose only
\* architecture token is one of these aliases gets the architecture bonus
\* and is matched by a pattern that uses {ARCH}.
C26_FullAliasList ==
    mpc = "done"
    => /\ getArchAliases(Matcher, arch) = amConfig.ArchitectureAliases[arch]
       /\ (NamedAfterHostAlias /\ assetNames[1] # AliasName("arm64"))
            => matchResult = [name |-> assetNames[1], err |-> ""]

\* On arm64 and arm hosts the full list is used.
C26_ArmHosts ==
    (mpc = "done" /\ arch \in {"arm64", "arm"})
    => /\ getArchAliases(Matcher, arch) = amConfig.ArchitectureAliases[arch]
       /\ (NamedAfterHostAlias /\ assetNames[1] # AliasName("arm64"))
            => matchResult = [name |-> assetNames[1], err |-> ""]

\* On amd64 the candidate tool-x64 is not resolved by the Flexible strategy.
C26_X64NoBonus ==
    /\ mpc = "done" /\ arch = "amd64" /\ amConfig.Strategy = "Flexible"
    /\ assetNames = <<AliasName("x64")>>
    /\ matchResult = [name |-> "", err |-> "NoFlexibleMatch"]

-----------------------------------------------------------------------------

(* The final permitted attempt *)

\* C27: the client never sleeps after the final permitted attempt: when the
\* attempt numbered MaxRetries has failed, by a transport error, a 5xx
\* status or a 429 with or without a Retry-After header, no rate-limit
\* pause and no backoff pause is taken before the call returns its error.
C27_NoSleepAfterLastAttempt ==
    (pc \in {"rateLimitWait", "backoffWait"} /\ attempt = config.MaxRetries)
        => pause = 0

\* The part that holds: a transport error or a 5xx status on the final
\* attempt is followed by no backoff pause.
C27_NoBackoffAfterLastAttempt ==
    pc = "backoffWait" => attempt < config.MaxRetries

\* The final attempt was answered 429 with Retry-After: 1 and the client
\* sleeps one second before it returns the error.
C27_LastAttemptRateLimitPause ==
    /\ pc = "rateLimitWait" /\ attempt = config.MaxRetries
    /\ retryAfter = "1" /\ pause = Second

-----------------------------------------------------------------------------

(* Responses with a status that is not retried *)

\* The client error statuses the backend answers with.
NonRetryableStatuses == {StatusUnauthorized, StatusForbidden, StatusNotFound}

\* A backend that never answers 200: every response handed to the caller
\* carries a client error status.
ErrorOutcomes ==
    NonRetryableStatuses
        \cup {TransportError, StatusTooManyRequests, StatusInternalServerError}

NextNonRetryable ==
    \/ Tick
    \/ DoEnter
    \/ \E o \in ErrorOutcomes : DoAttempt(o)
    \/ DoAfterRateLimit
    \/ DoAfterBackoff

SpecNonRetryable == Init /\ [][NextNonRetryable]_vars

\* C28: a response with a non-retryable error status (401, 403, 404) is
\* handed to the caller with a nil error and is not retried, so a call whose
\* first response it is has made exactly one request; the circuit breaker
\* treats it as a success, zeroing the failure counter and closing the
\* circuit, so that the circuit is open only when five failures were
\* recorded since the last such response.
C28_NonRetryableIsSuccess ==
    [][ /\ (requests' = requests + 1 /\ lastStatus' \in NonRetryableStatuses)
            => /\ pc' = "idle"
               /\ result' = "ok"
               /\ resp' = lastStatus'
               /\ requests' = attempt + 1
               /\ failureCount' = 0
               /\ ~circuitOpen'
               /\ sinceOk' = 0
        /\ circuitOpen' => sinceOk' >= FailureThreshold ]_vars

\* A 404 handed over on the first attempt of a call that found four
\* failures recorded, and a 403 that closes a circuit which opened earlier
\* in the same call.
C28_Witness ==
    /\ pc = "idle" /\ result = "ok" /\ config.CircuitBreaker
    /\ failureCount = 0 /\ ~circuitOpen
    /\ \/ resp = StatusNotFound /\ requests = 1
          /\ entryCount = FailureThreshold - 1
       \/ resp = StatusForbidden /\ retried >= 1
          /\ entryCount + retried >= FailureThreshold

-----------------------------------------------------------------------------

(* The link a release response hands out *)

\* A release response is asked for its link: GetReleaseLinkWithConfig of the
\* response type of the client's provider, on the listed assets.
GetReleaseLink ==
    /\ rpc = "ready"
    /\ grelease' = [grelease EXCEPT !.ReleaseLink =
                       GetReleaseLinkWithConfig(grelease.provider, amConfig,
                                                assetNames)]
    /\ rpc' = "linked"
    /\ UNCHANGED <<apiReply, netLog, rerr>>
    /\ UNCHANGED <<tvars, cvars, mvars, bvars, uvars>>

\* The configurations the link is looked up with: the default one and the
\* Standard strategy, both with the default exclusion patterns.
LinkConfigs ==
    {[DefaultAssetMatchingConfig EXCEPT !.Strategy = st] :
        st \in {"Flexible", "Standard"}}

LinkHosts == {"amd64", "arm64"}

InitLink ==
    /\ TransportIdle
    /\ os = "linux"
    /\ arch \in LinkHosts
    /\ amConfig \in LinkConfigs
    /\ assetNames \in ListsUpTo(ReleaseAssetPool, MaxAssets)
    /\ matchResult = [name |-> "", err |-> ""]
    /\ mpc = "idle"
    /\ filtered = <<>>
    /\ prevResult = [name |-> "", err |-> ""]
    /\ BuilderIdle
    /\ grelease \in {[provider |-> pv, Version |-> "", ReleaseLink |-> ""] :
                        pv \in {"github", "gitlab"}}
    /\ apiReply = [status |-> 0, TagName |-> ""]
    /\ netLog = <<>>
    /\ rerr = "none"
    /\ rpc = "ready"

NextLink == GetReleaseLink

SpecLink == InitLink /\ [][NextLink]_vars

\* The listed assets whose name matches one of the configured exclusion
\* patterns.
ExcludedAssets ==
    {i \in 1..Len(assetNames) :
        filterExcludedAssets([config |-> amConfig, os |-> os, arch |-> arch],
                             <<assetNames[i]>>) = <<>>}

\* C29: GetReleaseLinkWithConfig never returns the download URL of an asset
\* whose name matches a configured exclusion pattern, the legacy fallback
\* included, and returns no link when every listed asset is excluded.
C29_NeverExcludedLink ==
    rpc = "linked" =>
        /\ \A i \in ExcludedAssets :
               grelease.ReleaseLink # AssetURL(assetNames[i])
        /\ (ExcludedAssets = 1..Len(assetNames)) => grelease.ReleaseLink = ""

\* The part that holds: when the engine finds a candidate, the link is that
\* of an asset that is not excluded.
C29_EngineNeverExcluded ==
    (rpc = "linked"
       /\ FindBestMatch([config |-> amConfig, os |-> os, arch |-> arch],
                        assetNames).err = "")
        => \A i \in ExcludedAssets :
               grelease.ReleaseLink # AssetURL(assetNames[i])

\* The only asset is a checksum file: the engine fails and the legacy
\* fallback hands out the checksum file's URL.
C29_ChecksumLinked ==
    /\ rpc = "linked" /\ arch = "amd64"
    /\ assetNames = <<"helm_Linux_x86_64.tar.gz.sha256">>
    /\ grelease.ReleaseLink = AssetURL("helm_Linux_x86_64.tar.gz.sha256")

-----------------------------------------------------------------------------

(* The URL a download requests *)

\* C30: the URL a download requests is the one ConstructURLWithVersionFormat
\* builds for the same downloader from the version, the running OS, the
\* running architecture and the version format: the architecture mapping is
\* applied exactly once, so the URL carries the override map's value for the
\* running architecture, also when that value is itself an alias.
C30_DownloadURLMappedOnce ==
    upc = "downloaded" =>
        url = ConstructURLWithVersionFormat(downloader, cdnIn.version, os,
                                            arch, cdnIn.format)

\* The part that holds: with an override map that sends its own values to
\* themselves, or none, the requested URL is the constructed one.
C30_IdempotentMapping ==
    (upc = "downloaded" /\ downloader.ArchMapping # CustomArchMapping) =>
        url = ConstructURLWithVersionFormat(downloader, cdnIn.version, os,
                                            arch, cdnIn.format)

\* On arm64 with the override arm64 -> aarch64 the download requests the
\* arm64 file.
C30_OverrideLost ==
    /\ upc = "downloaded" /\ arch = "arm64"
    /\ downloader.ArchMapping = CustomArchMapping
    /\ url = "https://custom-cdn.example.com/binary-v3.1.0-linux-arm64.tar.gz"

=============================================================================
